---- MODULE Spec2Model ----
(***************************************************************************)
(* Model of the SynthRadioHost script generator: the two generate_script   *)
(* implementations (ScriptGenerator in src/src/script_generator.py and     *)
(* EmbeddedGroqScriptGenerator in src/app.py), their JSON extraction and   *)
(* script validation, and the persona-based prompt builder of              *)
(* src/src/prompt_builder.py; and of the rendering of a script to audio:   *)
(* the speech synthesis of src/src/tts_engine.py and tts_engine_mock.py,   *)
(* the merge and export of src/src/audio_processor.py and the Generate     *)
(* Audio button of src/app.py; of the script checks of prompt_builder.py   *)
(* and utils.py; of fetch_article of src/src/wikipedia_fetcher.py; and of  *)
(* the four-step wizard of src/app.py on one session.                      *)
(*                                                                         *)
(* A text (a Python str) is a sequence of lexemes.  A lexeme is one        *)
(* punctuation character, one space, the three-backtick code fence, or one *)
(* run of letters/digits that the code never splits.  json.loads, the      *)
(* code-fence regular expression, str.find/rfind and str.strip are         *)
(* computed on that sequence.                                              *)
(***************************************************************************)
EXTENDS Integers, Sequences, FiniteSets, TLC

\* ------------------------------------------------------------------------
\* Lexemes
\* ------------------------------------------------------------------------
LB == "{"
RB == "}"
LK == "["
RK == "]"
CM == ","
CL == ":"
QT == "\""
WS == " "
\* The code fence: three backticks.
FENCE == "<fence>"
JSONTAG == "json"

\* The decimal digits, as lexemes; Digits[d + 1] is the lexeme of digit d.
Digits == <<"0", "1", "2", "3", "4", "5", "6", "7", "8", "9">>

DigitLexemes == {Digits[i] : i \in 1..Len(Digits)}

DigitValue(w) == (CHOOSE i \in 1..Len(Digits) : Digits[i] = w) - 1

Min(S) == CHOOSE x \in S : \A y \in S : x <= y

Max(S) == CHOOSE x \in S : \A y \in S : x >= y

\* ------------------------------------------------------------------------
\* Python values, tagged with their type name
\* ------------------------------------------------------------------------
PyNone == [t |-> "NoneType"]

PyBool(b) == [t |-> "bool", b |-> b]

PyInt(n) == [t |-> "int", n |-> n]

PyStr(s) == [t |-> "str", s |-> s]

PyList(items) == [t |-> "list", items |-> items]

PyDict(m) == [t |-> "dict", m |-> m]

EmptyMap == [k \in {} |-> PyNone]

\* dict[key] = value
MapPut(m, key, value) ==
    [k \in (DOMAIN m) \cup {key} |-> IF k = key THEN value ELSE m[k]]

\* dict.get(key, default); a key is the lexeme sequence of its string
DictGet(d, key, default) == IF key \in DOMAIN d.m THEN d.m[key] ELSE default

\* bool(v): what `not v` and `if v` test
Truthy(v) ==
    CASE v.t = "NoneType" -> FALSE
      [] v.t = "bool" -> v.b
      [] v.t = "int" -> v.n # 0
      [] v.t = "str" -> v.s # <<>>
      [] v.t = "list" -> v.items # <<>>
      [] v.t = "dict" -> DOMAIN v.m # {}

\* str.strip(): leading and trailing whitespace removed
RECURSIVE LStrip(_)
LStrip(s) == IF s # <<>> /\ Head(s) = WS THEN LStrip(Tail(s)) ELSE s

RECURSIVE RStrip(_)
RStrip(s) ==
    IF s # <<>> /\ s[Len(s)] = WS THEN RStrip(SubSeq(s, 1, Len(s) - 1)) ELSE s

Strip(s) == RStrip(LStrip(s))

\* ------------------------------------------------------------------------
\* json.loads on a lexeme sequence
\* ------------------------------------------------------------------------
ParseFail == [ok |-> FALSE, val |-> PyNone, next |-> 0]

ParseOk(v, n) == [ok |-> TRUE, val |-> v, next |-> n]

\* First position at or after i that holds no whitespace (Len(t) + 1 if none).
SkipWs(t, i) ==
    LET rest == {j \in i..Len(t) : t[j] # WS}
    IN  IF rest = {} THEN Len(t) + 1 ELSE Min(rest)

\* A string literal opening at the quote t[i]: up to the next quote.
ParseString(t, i) ==
    LET closing == {j \in (i + 1)..Len(t) : t[j] = QT}
    IN  IF closing = {} THEN ParseFail
        ELSE ParseOk(PyStr(SubSeq(t, i + 1, Min(closing) - 1)), Min(closing) + 1)

\* The value of a run of digit lexemes, most significant first.
RECURSIVE DecimalValue(_)
DecimalValue(ds) ==
    IF ds = <<>> THEN 0
    ELSE 10 * DecimalValue(SubSeq(ds, 1, Len(ds) - 1)) + DigitValue(ds[Len(ds)])

\* A number opening at the digit t[i]: a lone 0, or the maximal run of digits.
ParseNumber(t, i) ==
    LET nondigit == {j \in i..Len(t) : t[j] \notin DigitLexemes}
        stop == IF nondigit = {} THEN Len(t) + 1 ELSE Min(nondigit)
    IN  IF t[i] = "0" THEN ParseOk(PyInt(0), i + 1)
        ELSE ParseOk(PyInt(DecimalValue(SubSeq(t, i, stop - 1))), stop)

RECURSIVE ParseValue(_, _), ParseMembers(_, _, _), ParseItems(_, _, _)

ParseValue(t, i) ==
    IF i > Len(t) THEN ParseFail
    ELSE CASE t[i] = QT -> ParseString(t, i)
           [] t[i] = LB ->
                LET j == SkipWs(t, i + 1)
                IN  IF j <= Len(t) /\ t[j] = RB THEN ParseOk(PyDict(EmptyMap), j + 1)
                    ELSE ParseMembers(t, j, EmptyMap)
           [] t[i] = LK ->
                LET j == SkipWs(t, i + 1)
                IN  IF j <= Len(t) /\ t[j] = RK THEN ParseOk(PyList(<<>>), j + 1)
                    ELSE ParseItems(t, j, <<>>)
           [] t[i] = "null" -> ParseOk(PyNone, i + 1)
           [] t[i] = "true" -> ParseOk(PyBool(TRUE), i + 1)
           [] t[i] = "false" -> ParseOk(PyBool(FALSE), i + 1)
           [] t[i] \in DigitLexemes -> ParseNumber(t, i)
           [] OTHER -> ParseFail

\* The members of an object from the key expected at i; a repeated key keeps
\* its last value.
ParseMembers(t, i, acc) ==
    IF i > Len(t) \/ t[i] # QT THEN ParseFail
    ELSE LET k == ParseString(t, i)
             c == SkipWs(t, k.next)
             v == ParseValue(t, SkipWs(t, c + 1))
             d == SkipWs(t, v.next)
             acc2 == MapPut(acc, k.val.s, v.val)
         IN  IF ~k.ok \/ c > Len(t) \/ t[c] # CL THEN ParseFail
             ELSE IF ~v.ok \/ d > Len(t) THEN ParseFail
             ELSE IF t[d] = RB THEN ParseOk(PyDict(acc2), d + 1)
             ELSE IF t[d] = CM THEN ParseMembers(t, SkipWs(t, d + 1), acc2)
             ELSE ParseFail

\* The items of an array from the value expected at i.
ParseItems(t, i, acc) ==
    LET v == ParseValue(t, i)
        d == SkipWs(t, v.next)
        acc2 == Append(acc, v.val)
    IN  IF ~v.ok \/ d > Len(t) THEN ParseFail
        ELSE IF t[d] = RK THEN ParseOk(PyList(acc2), d + 1)
        ELSE IF t[d] = CM THEN ParseItems(t, SkipWs(t, d + 1), acc2)
        ELSE ParseFail

\* json.loads(text): one value, whitespace around it, nothing else.
\* ok = FALSE is json.JSONDecodeError.
Loads(t) ==
    LET r == ParseValue(t, SkipWs(t, 1))
    IN  IF r.ok /\ SkipWs(t, r.next) = Len(t) + 1 THEN r ELSE ParseFail

\* ------------------------------------------------------------------------
\* json.dumps: the inverse direction, with Python's default separators
\* (", " between items and ": " after a key)
\* ------------------------------------------------------------------------
RECURSIVE DecimalLexemes(_)
DecimalLexemes(n) ==
    IF n < 10 THEN <<Digits[n + 1]>>
    ELSE DecimalLexemes(n \div 10) \o <<Digits[(n % 10) + 1]>>

RECURSIVE Dumps(_), DumpItems(_), DumpMembers(_, _)

Dumps(v) ==
    CASE v.t = "NoneType" -> <<"null">>
      [] v.t = "bool" -> IF v.b THEN <<"true">> ELSE <<"false">>
      [] v.t = "int" -> DecimalLexemes(v.n)
      [] v.t = "str" -> <<QT>> \o v.s \o <<QT>>
      [] v.t = "list" -> <<LK>> \o DumpItems(v.items) \o <<RK>>
      [] v.t = "dict" -> <<LB>> \o DumpMembers(v.m, DOMAIN v.m) \o <<RB>>

DumpItems(items) ==
    IF items = <<>> THEN <<>>
    ELSE IF Len(items) = 1 THEN Dumps(items[1])
    ELSE Dumps(items[1]) \o <<CM, WS>> \o DumpItems(Tail(items))

\* The members whose keys are in `keys`, one key after the other.
DumpMembers(m, keys) ==
    IF keys = {} THEN <<>>
    ELSE LET k == CHOOSE x \in keys : TRUE
             one == <<QT>> \o k \o <<QT, CL, WS>> \o Dumps(m[k])
         IN  IF keys = {k} THEN one
             ELSE one \o <<CM, WS>> \o DumpMembers(m, keys \ {k})

\* ------------------------------------------------------------------------
\* _extract_json
\* ------------------------------------------------------------------------
\* str.find(c) and str.rfind(c): 0-based index of the first / last c, or -1.
Find(t, c) ==
    LET at == {j \in 1..Len(t) : t[j] = c}
    IN  IF at = {} THEN -1 ELSE Min(at) - 1

RFind(t, c) ==
    LET at == {j \in 1..Len(t) : t[j] = c}
    IN  IF at = {} THEN -1 ELSE Max(at) - 1

\* text[a:b] for 0 <= a <= b
Slice(t, a, b) == SubSeq(t, a + 1, b)

\* The pattern  fence (?:json)? \s* ( \{ .*? \} ) \s* fence  tried at position
\* i: the positions of the captured group's braces, or <<>> when the pattern
\* does not match there.  The lazy .*? stops at the first closing brace that
\* whitespace and a fence follow.
FenceMatchAt(t, i) ==
    LET a == IF i + 1 <= Len(t) /\ t[i + 1] = JSONTAG THEN i + 2 ELSE i + 1
        b == SkipWs(t, a)
        ends == {e \in (b + 1)..Len(t) :
                    /\ t[e] = RB
                    /\ SkipWs(t, e + 1) <= Len(t)
                    /\ t[SkipWs(t, e + 1)] = FENCE}
    IN  IF t[i] = FENCE /\ b <= Len(t) /\ t[b] = LB /\ ends # {}
        THEN <<b, Min(ends)>>
        ELSE <<>>

\* re.findall(json_pattern, text, re.DOTALL)[0]: the group of the leftmost
\* match; found = FALSE when the list of matches is empty.
FirstFenceMatch(t) ==
    LET starts == {i \in 1..Len(t) : FenceMatchAt(t, i) # <<>>}
    IN  IF starts = {} THEN [found |-> FALSE, group |-> <<>>]
        ELSE LET m == FenceMatchAt(t, Min(starts))
             IN  [found |-> TRUE, group |-> SubSeq(t, m[1], m[2])]

\* Strategy 2: json.loads(matches[0]) when there is a match.
FencedParse(t) ==
    LET m == FirstFenceMatch(t)
    IN  IF m.found THEN Loads(m.group) ELSE ParseFail

\* Strategy 3: json.loads(text[start_idx:end_idx]) when the indices allow it.
BraceParse(t) ==
    LET start_idx == Find(t, LB)
        end_idx == RFind(t, RB) + 1
    IN  IF start_idx # -1 /\ end_idx > start_idx
        THEN Loads(Slice(t, start_idx, end_idx))
        ELSE ParseFail

\* _extract_json without its code-fence strategy.
ExtractJsonMissesFenced(t) ==
    IF Loads(t).ok THEN [via |-> "direct", val |-> Loads(t).val]
    ELSE IF BraceParse(t).ok THEN [via |-> "braces", val |-> BraceParse(t).val]
    ELSE [via |-> "none", val |-> PyNone]

\* _extract_json returning a parsed value only when it is truthy.
ExtractJsonTruthy(t) ==
    IF Loads(t).ok /\ Truthy(Loads(t).val) THEN [via |-> "direct", val |-> Loads(t).val]
    ELSE IF FencedParse(t).ok /\ Truthy(FencedParse(t).val)
    THEN [via |-> "fenced", val |-> FencedParse(t).val]
    ELSE IF BraceParse(t).ok /\ Truthy(BraceParse(t).val)
    THEN [via |-> "braces", val |-> BraceParse(t).val]
    ELSE [via |-> "none", val |-> PyNone]

\* _extract_json(text): the returned value and the return statement taken
\* ("direct", "fenced", "braces", or "none" for the final return None).
ExtractJson(t) ==
    IF Loads(t).ok THEN [via |-> "direct", val |-> Loads(t).val]
    ELSE IF FencedParse(t).ok THEN [via |-> "fenced", val |-> FencedParse(t).val]
    ELSE IF BraceParse(t).ok THEN [via |-> "braces", val |-> BraceParse(t).val]
    ELSE [via |-> "none", val |-> PyNone]

\* ------------------------------------------------------------------------
\* Exceptions: a type name and a message (a text)
\* ------------------------------------------------------------------------
NoExc == [type |-> "none", msg |-> <<>>]

Raise(type, msg) == [type |-> type, msg |-> msg]

\* str.lower() on one lexeme: the upper-case words the model uses.
LowerLexeme(w) ==
    CASE w = "RESOURCE_EXHAUSTED" -> "resource_exhausted"
      [] w = "Quota" -> "quota"
      [] w = "Invalid" -> "invalid"
      [] w = "Key" -> "key"
      [] w = "Not" -> "not"
      [] w = "Found" -> "found"
      [] w = "Network" -> "network"
      [] w = "Connection" -> "connection"
      [] OTHER -> w

Lower(s) == [i \in 1..Len(s) |-> LowerLexeme(s[i])]

\* `pattern in s` for strings: pattern occurs as a contiguous run.
Contains(s, pattern) ==
    \E i \in 1..(Len(s) - Len(pattern) + 1) :
        SubSeq(s, i, i + Len(pattern) - 1) = pattern

\* ------------------------------------------------------------------------
\* _validate_script
\* ------------------------------------------------------------------------
KeyOf(word) == <<word>>

\* int(v) for a JSON value: the integer, or the exception int() raises.
IntOf(v) ==
    CASE v.t = "int" -> [exc |-> NoExc, n |-> v.n]
      [] v.t = "bool" -> [exc |-> NoExc, n |-> IF v.b THEN 1 ELSE 0]
      [] v.t = "str" ->
            IF Strip(v.s) # <<>> /\ \A i \in 1..Len(Strip(v.s)) : Strip(v.s)[i] \in DigitLexemes
            THEN [exc |-> NoExc, n |-> DecimalValue(Strip(v.s))]
            ELSE [exc |-> Raise("ValueError",
                                <<"invalid", WS, "literal", WS, "for", WS, "int()", CL, WS>> \o v.s),
                  n |-> 0]
      [] OTHER -> [exc |-> Raise("TypeError", <<"int()", WS, "argument", WS, "must", WS, "be",
                                              WS, "a", WS, "string", WS, "or", WS, "a", WS,
                                              "number">>),
                   n |-> 0]

\* One pass of the loop body over seg: the exception it raises, whether a
\* segment is appended, and that segment.
ValidateSegment(seg) ==
    LET textv == DictGet(seg, KeyOf("text"), PyStr(<<>>))
        dur == IntOf(DictGet(seg, KeyOf("duration"), PyInt(30)))
        skip == [exc |-> NoExc, keep |-> FALSE, seg |-> PyNone]
    IN  IF seg.t # "dict" THEN skip
        ELSE IF KeyOf("text") \notin DOMAIN seg.m THEN skip
        ELSE IF textv.t # "str"
        THEN [exc |-> Raise("AttributeError", <<"object", WS, "has", WS, "no", WS,
                                                "attribute", WS, "strip">>),
              keep |-> FALSE, seg |-> PyNone]
        ELSE IF dur.exc # NoExc THEN [exc |-> dur.exc, keep |-> FALSE, seg |-> PyNone]
        ELSE [exc |-> NoExc,
              keep |-> Strip(textv.s) # <<>>,
              seg |-> [speaker |-> DictGet(seg, KeyOf("speaker"), PyStr(<<"Host">>)),
                       text |-> PyStr(Strip(textv.s)),
                       duration |-> PyInt(dur.n),
                       type |-> DictGet(seg, KeyOf("type"), PyStr(<<"main">>)),
                       notes |-> DictGet(seg, KeyOf("notes"), PyStr(<<>>))]]

\* The for loop over the remaining items, acc being validated["segments"].
RECURSIVE ValidateSegments(_, _)
ValidateSegments(items, acc) ==
    IF items = <<>> THEN [exc |-> NoExc, segments |-> acc]
    ELSE LET one == ValidateSegment(Head(items))
         IN  IF one.exc # NoExc THEN [exc |-> one.exc, segments |-> acc]
             ELSE ValidateSegments(Tail(items),
                                   IF one.keep THEN Append(acc, one.seg) ELSE acc)

\* What `for seg in x` iterates over: the items of a list; the characters of
\* a str and the keys of a dict, which are strs.  iterable = FALSE raises
\* TypeError.
IterItems(x) ==
    CASE x.t = "list" -> [iterable |-> TRUE, items |-> x.items]
      [] x.t = "str" -> [iterable |-> TRUE, items |-> [i \in 1..Len(x.s) |-> PyStr(<<x.s[i]>>)]]
      [] x.t = "dict" -> [iterable |-> TRUE,
                          items |-> [i \in 1..Cardinality(DOMAIN x.m) |-> PyStr(<<>>)]]
      [] OTHER -> [iterable |-> FALSE, items |-> <<>>]

\* _validate_script(script_data): the exception raised, or the validated dict.
ValidateScript(script_data) ==
    LET segs == IterItems(DictGet(script_data, KeyOf("segments"), PyList(<<>>)))
        loop == ValidateSegments(segs.items, <<>>)
        none == [title |-> PyNone, description |-> PyNone, segments |-> <<>>,
                 total_duration |-> PyNone, style |-> PyNone, key_adaptations |-> PyNone]
    IN  IF script_data.t # "dict"
        THEN [exc |-> Raise("AttributeError", <<"object", WS, "has", WS, "no", WS,
                                                "attribute", WS, "get">>),
              validated |-> none]
        ELSE IF ~segs.iterable
        THEN [exc |-> Raise("TypeError", <<"object", WS, "is", WS, "not", WS, "iterable">>),
              validated |-> none]
        ELSE IF loop.exc # NoExc THEN [exc |-> loop.exc, validated |-> none]
        ELSE [exc |-> NoExc,
              validated |->
                [title |-> DictGet(script_data, KeyOf("title"),
                                   PyStr(<<"Untitled", WS, "Podcast">>)),
                 description |-> DictGet(script_data, KeyOf("description"), PyStr(<<>>)),
                 segments |-> loop.segments,
                 total_duration |-> DictGet(script_data, KeyOf("total_duration"), PyInt(180)),
                 style |-> DictGet(script_data, KeyOf("style"), PyStr(<<"Educational">>)),
                 key_adaptations |-> DictGet(script_data, KeyOf("key_adaptations"),
                                             PyList(<<>>))]]

\* ------------------------------------------------------------------------
\* Audience profiles and prompt construction
\* ------------------------------------------------------------------------
DefaultAudience == "Adults (19-60)"

\* AUDIENCE_PROFILES, the same table in both generators.
AUDIENCE_PROFILES ==
    [a \in {"Kids (5-12)", "Teenagers (13-18)", "Adults (19-60)", "Elderly (60+)"} |->
        CASE a = "Kids (5-12)" ->
                [vocabulary |-> "simple, everyday words",
                 sentence_length |-> "short and simple",
                 explanations |-> "use analogies with toys, games, and animals",
                 tone |-> "enthusiastic, fun, encouraging",
                 avoid |-> "complex terminology, abstract concepts",
                 include |-> "questions to keep engagement, exciting examples"]
          [] a = "Teenagers (13-18)" ->
                [vocabulary |-> "modern, relatable language",
                 sentence_length |-> "moderate, conversational",
                 explanations |-> "use examples from social media, technology, pop culture",
                 tone |-> "casual, energetic, authentic",
                 avoid |-> "talking down, being too formal",
                 include |-> "real-world applications, current trends"]
          [] a = "Adults (19-60)" ->
                [vocabulary |-> "professional, sophisticated",
                 sentence_length |-> "varied, well-structured",
                 explanations |-> "use practical examples, data, research",
                 tone |-> "informative, confident, respectful",
                 avoid |-> "oversimplification, condescension",
                 include |-> "facts, statistics, expert insights"]
          [] a = "Elderly (60+)" ->
                [vocabulary |-> "clear, respectful language",
                 sentence_length |-> "moderate pace, well-paced",
                 explanations |-> "relate to life experience, historical context",
                 tone |-> "warm, patient, respectful",
                 avoid |-> "rushing, excessive jargon",
                 include |-> "historical connections, thoughtful reflections"]]

\* AUDIENCE_PROFILES.get(audience, AUDIENCE_PROFILES["Adults (19-60)"])
ProfileFor(audience) ==
    IF audience \in DOMAIN AUDIENCE_PROFILES THEN AUDIENCE_PROFILES[audience]
    ELSE AUDIENCE_PROFILES[DefaultAudience]

\* max_wiki_chars of ScriptGenerator and max_chars of the embedded generator
max_wiki_chars == 2500

max_chars == 3000

\* wikipedia_content[:limit], with "..." appended when something was cut
Trimmed(content, limit) ==
    IF Len(content) > limit THEN SubSeq(content, 1, limit) \o <<"...">> ELSE content

\* ScriptGenerator._build_audience_prompt: the values the template embeds.
BuildAudiencePrompt(wikipedia_content, topic_title, duration_minutes, style, audience) ==
    LET profile == ProfileFor(audience)
    IN  [builder |-> "_build_audience_prompt",
         raised |-> "none",
         audience |-> audience,
         topic_title |-> topic_title,
         duration_minutes |-> duration_minutes,
         style |-> style,
         vocabulary |-> profile.vocabulary,
         tone |-> profile.tone,
         explanations |-> profile.explanations,
         avoid |-> "",
         include |-> "",
         approx_words |-> duration_minutes * 150,
         source |-> Trimmed(wikipedia_content, max_wiki_chars),
         main_duration |-> duration_minutes * 40,
         total_duration |-> duration_minutes * 60]

\* EmbeddedGroqScriptGenerator._build_prompt
BuildPrompt(wikipedia_content, topic_title, duration_minutes, style, audience) ==
    LET profile == ProfileFor(audience)
    IN  [builder |-> "_build_prompt",
         raised |-> "none",
         audience |-> audience,
         topic_title |-> topic_title,
         duration_minutes |-> duration_minutes,
         style |-> style,
         vocabulary |-> profile.vocabulary,
         tone |-> profile.tone,
         explanations |-> profile.explanations,
         avoid |-> profile.avoid,
         include |-> profile.include,
         approx_words |-> duration_minutes * 150,
         source |-> Trimmed(wikipedia_content, max_chars),
         main_duration |-> duration_minutes * 20,
         total_duration |-> duration_minutes * 60]

\* SPEAKER_PERSONAS of personas.py: the persona names per audience and gender.
SPEAKER_PERSONAS ==
    [a \in {"kids", "teenagers", "adults", "elders"} |->
        CASE a = "kids" -> [male |-> "BOY", female |-> "GIRL"]
          [] a = "teenagers" -> [male |-> "TEEN BOY", female |-> "TEEN GIRL"]
          [] a = "adults" -> [male |-> "SPEAKER 1", female |-> "SPEAKER 2"]
          [] a = "elders" -> [male |-> "ELDER", female |-> "ELDER"]]

\* get_persona(audience, gender): SPEAKER_PERSONAS.get(audience, {}).get(gender, {});
\* found = FALSE is the empty dict.
get_persona(audience, gender) ==
    IF audience \in DOMAIN SPEAKER_PERSONAS /\ gender \in DOMAIN SPEAKER_PERSONAS[audience]
    THEN [found |-> TRUE, name |-> SPEAKER_PERSONAS[audience][gender]]
    ELSE [found |-> FALSE, name |-> ""]

\* The tones TONE_MODIFIERS knows.
Tones == {"funny", "witty", "professional", "educational", "casual"}

\* get_tone_modifier(tone, audience): "" unless both keys are known.
get_tone_modifier(tone, audience) ==
    IF tone \in Tones /\ audience \in DOMAIN SPEAKER_PERSONAS
    THEN <<tone, audience>>
    ELSE <<>>

\* wikipedia_content[:1500] of build_script_prompt
prompt_content_chars == 1500

\* prompt_builder.build_script_prompt: male_persona['name'] on the empty dict
\* raises KeyError.
build_script_prompt(topic, tone, audience, wikipedia_content) ==
    LET male_persona == get_persona(audience, "male")
        female_persona == get_persona(audience, "female")
    IN  IF ~male_persona.found \/ ~female_persona.found
        THEN [builder |-> "build_script_prompt", raised |-> "KeyError", audience |-> audience]
        ELSE [builder |-> "build_script_prompt",
              raised |-> "none",
              audience |-> audience,
              topic |-> topic,
              tone |-> tone,
              male_name |-> male_persona.name,
              female_name |-> female_persona.name,
              tone_modifier |-> get_tone_modifier(tone, audience),
              source |-> SubSeq(wikipedia_content, 1,
                                IF Len(wikipedia_content) < prompt_content_chars
                                THEN Len(wikipedia_content) ELSE prompt_content_chars)]

\* ------------------------------------------------------------------------
\* generate_script: the dicts it returns
\* ------------------------------------------------------------------------
\* self.max_retries and self.retry_delay of ScriptGenerator.__init__
max_retries == 3

\* self.max_retries of the ScriptGenerator in use
VARIABLE self_max_retries

retry_delay == 60

Failure(error) == [success |-> FALSE, error |-> error]

TypedFailure(error, error_type) ==
    [success |-> FALSE, error |-> error, error_type |-> error_type]

\* The result built from the raw response when _extract_json gave a falsy value.
RawResponseResult(text, topic_title, audience) ==
    [success |-> TRUE,
     script |-> text,
     title |-> PyStr(<<"Podcast", CL, WS>> \o topic_title),
     target_audience |-> audience,
     raw_response |-> TRUE]

\* {"success": True, **validated_script, "script": response.text}
ValidatedResult(validated, text, topic_title, audience) ==
    [success |-> TRUE,
     title |-> validated.title,
     description |-> validated.description,
     segments |-> validated.segments,
     total_duration |-> validated.total_duration,
     style |-> validated.style,
     key_adaptations |-> validated.key_adaptations,
     target_audience |-> audience,
     wikipedia_source |-> topic_title,
     script |-> text]

\* The quota test of both except clauses of ScriptGenerator.generate_script.
IsQuotaMessage(msg) ==
    \/ Contains(Lower(msg), <<"quota">>)
    \/ Contains(msg, <<"4", "2", "9">>)
    \/ Contains(Lower(msg), <<"resource_exhausted">>)

\* The outer `except Exception as e` of ScriptGenerator.generate_script.
GeminiOuterExcept(exc) ==
    IF IsQuotaMessage(exc.msg)
    THEN TypedFailure("API quota exceeded. Wait 60 seconds or enable billing", "quota_exceeded")
    ELSE IF Contains(exc.msg, <<"4", "0", "4">>) \/ Contains(Lower(exc.msg), <<"not", WS, "found">>)
    THEN TypedFailure("Model not found", "model_not_found")
    ELSE IF Contains(Lower(exc.msg), <<"invalid">>) /\ Contains(Lower(exc.msg), <<"key">>)
    THEN TypedFailure("Invalid API key", "invalid_key")
    ELSE IF Contains(Lower(exc.msg), <<"network">>) \/ Contains(Lower(exc.msg), <<"connection">>)
    THEN TypedFailure("Network error", "network_error")
    ELSE TypedFailure("Error: <error_msg>", exc.type)

\* The `except Exception as e` inside the retry loop, at iteration `attempt`:
\* a quota error returns at once, any other error is raised to the outer clause.
GeminiInnerExcept(exc, attempt) ==
    IF IsQuotaMessage(exc.msg)
    THEN IF attempt < self_max_retries - 1
         THEN [success |-> FALSE,
               error |-> "API quota limit reached. Please wait <wait_time> seconds",
               retry_after |-> retry_delay * (attempt + 1),
               error_type |-> "quota_exceeded"]
         ELSE TypedFailure("API quota exhausted after multiple retries", "quota_exceeded")
    ELSE GeminiOuterExcept(exc)

\* The mutant of the embedded generator's except clause: a failure that says
\* nothing of its cause.
GroqExceptSilent(exc) == [success |-> FALSE, error_type |-> exc.type]

\* The `except Exception as e` of EmbeddedGroqScriptGenerator.generate_script.
GroqExcept(exc) == TypedFailure("Groq API error: <str(e)>", exc.type)

\* The range test with its lower end off by one.
DurationInRangeLoose(duration_minutes) == 0 <= duration_minutes /\ duration_minutes <= 10

\* `1 <= duration_minutes <= 10`
DurationInRange(duration_minutes) == 1 <= duration_minutes /\ duration_minutes <= 10

\* The precondition checks both generators open with: the failure returned,
\* or passed = TRUE.
CheckRequest(wikipedia_content, duration_minutes) ==
    IF wikipedia_content = <<>> \/ Strip(wikipedia_content) = <<>>
    THEN [passed |-> FALSE, result |-> Failure("Wikipedia content is empty")]
    ELSE IF ~DurationInRange(duration_minutes)
    THEN [passed |-> FALSE, result |-> Failure("Duration must be between 1 and 10 minutes")]
    ELSE [passed |-> TRUE, result |-> PyNone]

\* From the response text to the end of the try block of one generator: the
\* dict returned, or the exception raised there.
HandleResponseText(text, req, emptyError) ==
    LET script_data == ExtractJson(text).val
        v == ValidateScript(script_data)
    IN  IF text = <<>> THEN [exc |-> NoExc, result |-> Failure(emptyError)]
        ELSE IF ~Truthy(script_data)
        THEN [exc |-> NoExc,
              result |-> RawResponseResult(text, req.topic_title, req.audience)]
        ELSE IF v.exc # NoExc THEN [exc |-> v.exc, result |-> PyNone]
        ELSE [exc |-> NoExc,
              result |-> ValidatedResult(v.validated, text, req.topic_title, req.audience)]

\* The except clause of ScriptGenerator's retry loop applied to what the try
\* block gave.
GeminiSettle(tried, attempt) ==
    IF tried.exc # NoExc THEN GeminiInnerExcept(tried.exc, attempt) ELSE tried.result

\* ScriptGenerator.generate_script after generate_content returned `text`,
\* in iteration `attempt` of the retry loop.
GeminiOnText(text, req, attempt) ==
    GeminiSettle(HandleResponseText(text, req,
                                    "Content generation was blocked. Try a different topic."),
                 attempt)

\* The except clause of the embedded generator applied to what the try block
\* gave.
GroqSettle(tried) ==
    IF tried.exc # NoExc THEN GroqExcept(tried.exc) ELSE tried.result

\* EmbeddedGroqScriptGenerator.generate_script after the completion returned.
GroqOnText(text, req) ==
    GroqSettle(HandleResponseText(text, req, "No response from Groq API"))

\* ------------------------------------------------------------------------
\* Speech synthesis (tts_engine.py, tts_engine_mock.py)
\* ------------------------------------------------------------------------
\* An audio clip is a sequence of frames of equal duration.  A frame of
\* speech carries the number of the turn it was synthesised for (from 1), a
\* frame of silence is 0, so that the order and the extent of every part of a
\* merged clip can be read off it.
Frames(n, v) == [k \in 1..n |-> v]

\* bark_voice and elevenlabs_voice of SPEAKER_PERSONAS.
PERSONA_VOICES ==
    [a \in {"kids", "teenagers", "adults", "elders"} |->
        CASE a = "kids" ->
               [male |-> [bark_voice |-> "v2/en_speaker_6", elevenlabs_voice |-> "adam"],
                female |-> [bark_voice |-> "v2/en_speaker_9", elevenlabs_voice |-> "bella"]]
          [] a = "teenagers" ->
               [male |-> [bark_voice |-> "v2/en_speaker_7", elevenlabs_voice |-> "josh"],
                female |-> [bark_voice |-> "v2/en_speaker_1", elevenlabs_voice |-> "elli"]]
          [] a = "adults" ->
               [male |-> [bark_voice |-> "v2/en_speaker_3", elevenlabs_voice |-> "adam"],
                female |-> [bark_voice |-> "v2/en_speaker_2", elevenlabs_voice |-> "aria"]]
          [] a = "elders" ->
               [male |-> [bark_voice |-> "v2/en_speaker_4", elevenlabs_voice |-> "sam"],
                female |-> [bark_voice |-> "v2/en_speaker_8", elevenlabs_voice |-> "rachel"]]]

\* persona[key] for persona = get_persona(audience, speaker): the empty dict
\* of an unknown audience or speaker has no such key.
PersonaVoice(audience, speaker, key) ==
    IF get_persona(audience, speaker).found
    THEN [raised |-> "none", voice |-> PERSONA_VOICES[audience][speaker][key]]
    ELSE [raised |-> "KeyError", voice |-> key]

\* The clip the synthesis call gives for turn i (from 0): one or two frames.
SpeechOf(i) == Frames(1 + (i % 2), i + 1)

\* The mock engine's clip: silence of max(2, min(words / 150 * 60, 10))
\* seconds, which is 2 seconds for a dialogue of fewer than five words; one
\* frame a second.
MockClip(dialogue) == Frames(2, 0)

\* The synthesis without its except clause: an exception of the call leaves
\* the method.
GenerateSpeechRaising(text, voice, i, synth_ok) ==
    [raised |-> IF synth_ok THEN "none" ELSE "Exception",
     success |-> synth_ok,
     spoken |-> <<[text |-> text, voice |-> voice]>>,
     audio |-> SpeechOf(i)]

\* generate_speech_bark / generate_speech_elevenlabs: the text goes to the
\* synthesis call as it is; an exception of the call becomes False.
GenerateSpeech(text, voice, i, synth_ok) ==
    [raised |-> "none",
     success |-> synth_ok,
     spoken |-> <<[text |-> text, voice |-> voice]>>,
     audio |-> SpeechOf(i)]

\* TTSEngine.generate_dialogue_segment of either module.  engine "mock" is
\* the class of tts_engine_mock.py, which looks up no persona and calls no
\* synthesis.
GenerateDialogueSegment(engine, dialogue, speaker, audience, i, synth_ok) ==
    IF engine = "mock"
    THEN [raised |-> "none", success |-> synth_ok, spoken |-> <<>>,
          audio |-> MockClip(dialogue)]
    ELSE LET looked == PersonaVoice(audience, speaker,
                           IF engine = "bark" THEN "bark_voice" ELSE "elevenlabs_voice")
         IN  IF looked.raised # "none"
             THEN [raised |-> looked.raised, success |-> FALSE, spoken |-> <<>>,
                   audio |-> <<>>]
             ELSE GenerateSpeech(dialogue, looked.voice, i, synth_ok)

\* output_dir / f"segment_{i:03d}_{speaker}.wav"
SegmentPath(i, speaker) == [i |-> i, speaker |-> speaker]

\* No file written yet.
NoFiles == [p \in {} |-> <<>>]

WriteFile(files, path, audio) ==
    [p \in DOMAIN files \cup {path} |-> IF p = path THEN audio ELSE files[p]]

\* One iteration of the loop of generate_full_conversation on the outcome one
\* of generate_dialogue_segment: a failed turn is reported on the console and
\* the loop goes on.
AfterSegment(acc, one, path) ==
    IF one.raised # "none"
    THEN [acc EXCEPT !.raised = one.raised]
    ELSE IF one.success
         THEN [acc EXCEPT !.audio_files = Append(@, path),
                          !.files = WriteFile(@, path, one.audio),
                          !.spoken = @ \o one.spoken]
         ELSE [acc EXCEPT !.spoken = @ \o one.spoken,
                          !.failed = @ \cup {path.i}]

RECURSIVE ConversationLoop(_, _, _, _, _, _)
ConversationLoop(engine, segments, audience, failing, i, acc) ==
    IF i >= Len(segments) \/ acc.raised # "none"
    THEN acc
    ELSE ConversationLoop(engine, segments, audience, failing, i + 1,
             AfterSegment(acc,
                 GenerateDialogueSegment(engine, segments[i + 1].dialogue,
                     segments[i + 1].speaker, audience, i, i \notin failing),
                 SegmentPath(i, segments[i + 1].speaker)))

\* generate_full_conversation(segments, audience, output_dir): the list of
\* files it returns, the files it wrote, the synthesis calls it made and the
\* exception that left it, if any.  failing holds the turns whose synthesis
\* does not succeed.
GenerateFullConversationResult(engine, segments, audience, failing) ==
    ConversationLoop(engine, segments, audience, failing, 0,
        [raised |-> "none", audio_files |-> <<>>, files |-> NoFiles,
         spoken |-> <<>>, failed |-> {}])

\* ------------------------------------------------------------------------
\* Audio assembly (audio_processor.py)
\* ------------------------------------------------------------------------
\* add_pause(duration_ms): AudioSegment.silent
add_pause(duration) == Frames(duration, 0)

RECURSIVE MergeLoop(_, _, _, _)
MergeLoop(merged, rest, pause, files) ==
    IF rest = <<>>
    THEN merged
    ELSE MergeLoop(merged \o pause \o files[Head(rest)], Tail(rest), pause, files)

\* The mutants of merge_segments: a pause after every clip, the last one
\* included, and no check of the empty list.
MergeSegmentsTrailingPause(audio_files, pause_duration, files, unreadable) ==
    IF audio_files = <<>>
    THEN [exc |-> "ValueError", msg |-> "No audio files provided", audio |-> <<>>,
          loads |-> 0]
    ELSE [exc |-> "none", msg |-> "",
          audio |-> MergeLoop(files[audio_files[1]], Tail(audio_files),
                              add_pause(pause_duration), files)
                    \o add_pause(pause_duration),
          loads |-> Len(audio_files)]

MergeSegmentsUnchecked(audio_files, pause_duration, files, unreadable) ==
    IF audio_files = <<>>
    THEN [exc |-> "none", msg |-> "", audio |-> <<>>, loads |-> 0]
    ELSE [exc |-> "none", msg |-> "",
          audio |-> MergeLoop(files[audio_files[1]], Tail(audio_files),
                              add_pause(pause_duration), files),
          loads |-> Len(audio_files)]

\* merge_segments(audio_files, pause_duration).  unreadable is the position
\* of the file load_audio cannot read, 0 when it reads them all; loads counts
\* the calls of load_audio.
MergeSegments(audio_files, pause_duration, files, unreadable) ==
    IF audio_files = <<>>
    THEN [exc |-> "ValueError", msg |-> "No audio files provided", audio |-> <<>>,
          loads |-> 0]
    ELSE IF unreadable \in 1..Len(audio_files)
         THEN [exc |-> "CouldntDecodeError", msg |-> "", audio |-> <<>>,
               loads |-> unreadable]
         ELSE [exc |-> "none", msg |-> "",
               audio |-> MergeLoop(files[audio_files[1]], Tail(audio_files),
                                   add_pause(pause_duration), files),
               loads |-> Len(audio_files)]

\* A file of the output directory: absent, or holding a clip.
NoFile == [exists |-> FALSE, data |-> <<>>]

FileOf(audio) == [exists |-> TRUE, data |-> audio]

\* What is at the target path after a write to it that ends as outcome says:
\* "ok", "fails_before_open" (nothing was opened) or "fails_after_open" (the
\* path was opened for writing, which empties it, and the data never came).
\* Neither export_mp3 nor the save of app.py writes elsewhere first or
\* removes what a failed write left.
WrittenFile(before, audio, outcome) ==
    CASE outcome = "ok" -> FileOf(audio)
      [] outcome = "fails_before_open" -> before
      [] outcome = "fails_after_open" -> FileOf(<<>>)

\* export_mp3(audio, output_path, ...): normalising changes the gain of the
\* frames, not their number or order; any exception becomes False.
ExportMp3(audio, before, outcome) ==
    [success |-> outcome = "ok", file |-> WrittenFile(before, audio, outcome)]

\* process_conversation on what merge_segments gave: its exception becomes
\* False and nothing is exported.
ProcessMerged(merged, before, outcome) ==
    IF merged.exc # "none"
    THEN [returned |-> FALSE, file |-> before, exports |-> 0, merged |-> merged]
    ELSE [returned |-> ExportMp3(merged.audio, before, outcome).success,
          file |-> ExportMp3(merged.audio, before, outcome).file,
          exports |-> 1,
          merged |-> merged]

\* process_conversation(audio_files, output_path, pause_duration)
ProcessConversation(audio_files, pause_duration, files, unreadable, before, outcome) ==
    ProcessMerged(MergeSegments(audio_files, pause_duration, files, unreadable),
                  before, outcome)

\* ------------------------------------------------------------------------
\* Step 4 of the wizard (app.py): Generate Audio
\* ------------------------------------------------------------------------
\* get_voice_for_audience(audience): voice_map.get with a default
get_voice_for_audience(audience) ==
    CASE audience = "Kids (5-12)" -> "en-US-JennyNeural"
      [] audience = "Teenagers (13-18)" -> "en-US-AriaNeural"
      [] audience = "Adults (19-60)" -> "en-US-AndrewNeural"
      [] audience = "Elderly (60+)" -> "en-US-GuyNeural"
      [] OTHER -> "en-US-AndrewNeural"

\* "\n\n".join([s.get('text', '') for s in segments])
RECURSIVE FullText(_)
FullText(segments) ==
    IF segments = <<>>
    THEN <<>>
    ELSE IF Len(segments) = 1
         THEN Head(segments).text
         ELSE Head(segments).text \o <<"\n", "\n">> \o FullText(Tail(segments))

\* The clip edge_tts gives for a text: a frame a lexeme.
EdgeSpeech(text) == Frames(Len(text), 1)

\* ------------------------------------------------------------------------
\* Script checks (prompt_builder.validate_generated_script, utils.count_words)
\* ------------------------------------------------------------------------
\* For these a Python str is the sequence of its characters, so that `in`
\* and split() see what they see in the code.  Chars gives the characters of
\* the strings the model writes as TLA+ strings.
Chars(word) ==
    CASE word = "BOY" ->
            <<"B", "O", "Y">>
      [] word = "GIRL" ->
            <<"G", "I", "R", "L">>
      [] word = "TEEN BOY" ->
            <<"T", "E", "E", "N", " ", "B", "O", "Y">>
      [] word = "TEEN GIRL" ->
            <<"T", "E", "E", "N", " ", "G", "I", "R", "L">>
      [] word = "SPEAKER 1" ->
            <<"S", "P", "E", "A", "K", "E", "R", " ", "1">>
      [] word = "SPEAKER 2" ->
            <<"S", "P", "E", "A", "K", "E", "R", " ", "2">>
      [] word = "ELDER" ->
            <<"E", "L", "D", "E", "R">>
      [] word = "[laughs]" ->
            <<"[", "l", "a", "u", "g", "h", "s", "]">>
      [] word = "[giggles]" ->
            <<"[", "g", "i", "g", "g", "l", "e", "s", "]">>
      [] word = "[umm]" ->
            <<"[", "u", "m", "m", "]">>
      [] word = "[excited]" ->
            <<"[", "e", "x", "c", "i", "t", "e", "d", "]">>
      [] word = "[curious]" ->
            <<"[", "c", "u", "r", "i", "o", "u", "s", "]">>
      [] word = "[pause]" ->
            <<"[", "p", "a", "u", "s", "e", "]">>
      [] word = "yaar" ->
            <<"y", "a", "a", "r">>
      [] word = "arey" ->
            <<"a", "r", "e", "y">>
      [] word = "achha" ->
            <<"a", "c", "h", "h", "a">>
      [] word = "matlab" ->
            <<"m", "a", "t", "l", "a", "b">>
      [] word = "haan" ->
            <<"h", "a", "a", "n">>
      [] word = "nahi" ->
            <<"n", "a", "h", "i">>
      [] word = "toh" ->
            <<"t", "o", "h">>
      [] word = "hai" ->
            <<"h", "a", "i">>
      [] word = "ka" ->
            <<"k", "a">>
      [] word = "ki" ->
            <<"k", "i">>
      [] word = "BOY: yaar [excited]\n" ->
            <<"B", "O", "Y", ":", " ", "y", "a", "a", "r", " ", "[", "e", "x", "c", "i", "t", "e", "d", "]", "\n">>
      [] word = "GIRL: wo BOY kahan hai [giggles]\n" ->
            <<"G", "I", "R", "L", ":", " ", "w", "o", " ", "B", "O", "Y", " ", "k", "a", "h", "a", "n", " ", "h", "a", "i", " ", "[", "g", "i", "g", "g", "l", "e", "s", "]", "\n">>
      [] word = "GIRL: hello\n" ->
            <<"G", "I", "R", "L", ":", " ", "h", "e", "l", "l", "o", "\n">>
      [] word = "TEEN BOY: toh [umm]\n" ->
            <<"T", "E", "E", "N", " ", "B", "O", "Y", ":", " ", "t", "o", "h", " ", "[", "u", "m", "m", "]", "\n">>
      [] word = "SPEAKER 2: Arey [pause]\n" ->
            <<"S", "P", "E", "A", "K", "E", "R", " ", "2", ":", " ", "A", "r", "e", "y", " ", "[", "p", "a", "u", "s", "e", "]", "\n">>
      [] word = "ELDER: achha [curious]\n" ->
            <<"E", "L", "D", "E", "R", ":", " ", "a", "c", "h", "h", "a", " ", "[", "c", "u", "r", "i", "o", "u", "s", "]", "\n">>
      [] word = "Hello world this is a test" ->
            <<"H", "e", "l", "l", "o", " ", "w", "o", "r", "l", "d", " ", "t", "h", "i", "s", " ", "i", "s", " ", "a", " ", "t", "e", "s", "t">>
      [] word = "w " ->
            <<"w", " ">>

\* str.lower() on the letters of the modelled texts.
LowerChar(c) ==
    CASE c = "A" -> "a" [] c = "B" -> "b" [] c = "D" -> "d" [] c = "E" -> "e"
      [] c = "G" -> "g" [] c = "H" -> "h" [] c = "I" -> "i" [] c = "K" -> "k"
      [] c = "L" -> "l" [] c = "N" -> "n" [] c = "O" -> "o" [] c = "P" -> "p"
      [] c = "R" -> "r" [] c = "S" -> "s" [] c = "T" -> "t" [] c = "Y" -> "y"
      [] OTHER -> c

LowerChars(s) == [k \in 1..Len(s) |-> LowerChar(s[k])]

\* The characters str.split() splits at.
Whitespace == {" ", "\n", "\t"}

\* len(s.split()): the maximal runs of characters that are not whitespace.
SplitCount(s) ==
    Cardinality({k \in 1..Len(s) :
                    /\ s[k] \notin Whitespace
                    /\ (k = 1 \/ s[k - 1] \in Whitespace)})

\* utils.count_words(text)
count_words(text) == SplitCount(text)

\* Config.TARGET_WORD_COUNT_MIN and TARGET_WORD_COUNT_MAX
TARGET_WORD_COUNT_MIN == 400

TARGET_WORD_COUNT_MAX == 450

\* The 100 of `word_count > Config.TARGET_WORD_COUNT_MAX + 100`
too_long_margin == 100

conversational_markers ==
    <<"[laughs]", "[giggles]", "[umm]", "[excited]", "[curious]", "[pause]">>

hindi_words ==
    <<"yaar", "arey", "achha", "matlab", "haan", "nahi", "toh", "hai", "ka", "ki">>

\* any(w in s for w in words)
ContainsAny(s, words) == \E k \in 1..Len(words) : Contains(s, Chars(words[k]))

\* The issues of validate_generated_script, in the order it appends them.
SpeakerIssues(script, male_name, female_name) ==
    (IF Contains(script, Chars(male_name))
     THEN <<>> ELSE <<[kind |-> "missing", detail |-> male_name]>>)
    \o (IF Contains(script, Chars(female_name))
        THEN <<>> ELSE <<[kind |-> "missing", detail |-> female_name]>>)

MarkerIssues(script) ==
    IF ContainsAny(script, conversational_markers)
    THEN <<>> ELSE <<[kind |-> "no emotion tags", detail |-> ""]>>

WordCountIssues(word_count) ==
    IF word_count < TARGET_WORD_COUNT_MIN
    THEN <<[kind |-> "too short", detail |-> ""]>>
    ELSE IF word_count > TARGET_WORD_COUNT_MAX + too_long_margin
         THEN <<[kind |-> "too long", detail |-> ""]>>
         ELSE <<>>

HinglishIssues(script) ==
    IF ContainsAny(LowerChars(script), hindi_words)
    THEN <<>> ELSE <<[kind |-> "not Hinglish", detail |-> ""]>>

\* (is_valid, issues) from the list of issues
Validity(issues) == [raised |-> "none", is_valid |-> Len(issues) = 0, issues |-> issues]

\* validate_generated_script(script, audience): male_persona['name'] of the
\* empty dict of an unknown audience raises KeyError.
validate_generated_script(script, audience) ==
    IF ~get_persona(audience, "male").found \/ ~get_persona(audience, "female").found
    THEN [raised |-> "KeyError", is_valid |-> FALSE, issues |-> <<>>]
    ELSE Validity(SpeakerIssues(script, get_persona(audience, "male").name,
                                get_persona(audience, "female").name)
                  \o MarkerIssues(script)
                  \o WordCountIssues(SplitCount(script))
                  \o HinglishIssues(script))

\* ------------------------------------------------------------------------
\* Fetching an article (wikipedia_fetcher.py)
\* ------------------------------------------------------------------------
\* A topic or a title is the sequence of its words; the words of a text are
\* kept apart, so that a text made from a topic shows where the topic went.
RECURSIVE JoinWords(_, _)
JoinWords(words, sep) ==
    IF words = <<>>
    THEN <<>>
    ELSE IF Len(words) = 1
         THEN words
         ELSE <<Head(words), sep>> \o JoinWords(Tail(words), sep)

\* What wikipedia.page gives: a page object, or the exception it raises.
PageOf(title, ncategories) ==
    [kind |-> "page", title |-> title, categories |-> [k \in 1..ncategories |-> k]]

PageRaised(kind, options) == [kind |-> kind, options |-> options]

\* page.categories[:5]
FirstFive(categories) ==
    SubSeq(categories, 1, IF Len(categories) < 5 THEN Len(categories) ELSE 5)

\* The dict fetch_article builds from a page object.
ArticleOf(page, categories) ==
    [t |-> "dict",
     title |-> JoinWords(page.title, " "),
     summary |-> <<"summary of">> \o page.title,
     content |-> <<"content of">> \o page.title,
     url |-> <<"https://en.wikipedia.org/wiki/">> \o JoinWords(page.title, "_"),
     categories |-> categories]

\* _create_fallback_article(topic)
_create_fallback_article(topic) ==
    [t |-> "dict",
     title |-> JoinWords(topic, " "),
     summary |-> JoinWords(topic, " ") \o <<" is the topic of discussion.">>,
     content |-> JoinWords(topic, " ") \o <<" is an important topic. ">>,
     url |-> <<"https://en.wikipedia.org/wiki/">> \o JoinWords(topic, "_"),
     categories |-> <<>>]

\* The handler of the DisambiguationError of fetch_article, on what the page
\* call for e.options[0] gives: with no options the inner try block falls out
\* of its `if` and the method ends without a return statement.
AfterDisambiguation(topic, options, second) ==
    IF options = <<>>
    THEN PyNone
    ELSE IF second.kind = "page"
         THEN ArticleOf(second, <<>>)
         ELSE _create_fallback_article(topic)

\* fetch_article(topic) on what wikipedia.page(topic, auto_suggest=True)
\* gives, and on what the page call for the first option gives.
fetch_article(topic, first, second) ==
    CASE first.kind = "page" -> ArticleOf(first, FirstFive(first.categories))
      [] first.kind = "DisambiguationError" ->
            AfterDisambiguation(topic, first.options, second)
      [] first.kind = "PageError" -> _create_fallback_article(topic)
      [] OTHER -> _create_fallback_article(topic)

\* ------------------------------------------------------------------------
\* The wizard (app.py): what its handlers call
\* ------------------------------------------------------------------------
\* max_chars of the get_article_content call of step 2, and the length of the
\* summary get_article_content cuts.
article_max_chars == 3000

summary_chars == 500

\* One entry of the list search_topics returns.
SearchResult(title) == [title |-> title, snippet |-> <<"about", WS>> \o title]

\* What the MediaWiki query of get_article_content gives for a title: a page
\* with its own title and extract, a page marked missing, or an exception of
\* the request or of reading the answer.
ArticlePage(title, extract) == [kind |-> "page", title |-> title, extract |-> extract]

ArticleMissing == [kind |-> "missing", title |-> <<>>, extract |-> <<>>]

ArticleError == [kind |-> "error", title |-> <<>>, extract |-> <<>>]

\* get_article_content(title, max_chars): a dict in every case.
get_article_content(title, limit, answer) ==
    CASE answer.kind = "missing" ->
            [t |-> "dict", title |-> title, summary |-> <<"Article not found">>,
             url |-> <<>>, full_text |-> <<>>, extract |-> <<>>]
      [] answer.kind = "error" ->
            [t |-> "dict", title |-> title, summary |-> <<"Error fetching content: <e>">>,
             url |-> <<>>,
             full_text |-> <<"Unable to fetch article content. Error: <e>">>,
             extract |-> <<>>]
      [] OTHER ->
            [t |-> "dict", title |-> answer.title,
             summary |-> Trimmed(answer.extract, summary_chars),
             url |-> <<"https://en.wikipedia.org/wiki/">> \o answer.title,
             full_text |-> Trimmed(answer.extract, limit),
             extract |-> Trimmed(answer.extract, limit)]

\* str.replace(old, new) for an old of one character, a lexeme of the model.
ReplaceLexeme(s, old, new) == [k \in 1..Len(s) |-> IF s[k] = old THEN new ELSE s[k]]

\* f"outputs/{safe_filename}.mp3" with
\* safe_filename = selected_topic.replace(' ', '_').replace('/', '-')
AudioPathOf(selected_topic) ==
    <<"outputs/">> \o ReplaceLexeme(ReplaceLexeme(selected_topic, WS, "_"), "/", "-")
        \o <<".mp3">>

\* What the chat-completion call of the embedded generator does.
ChatText(text) == [kind |-> "text", text |-> text, exc |-> NoExc]

ChatRaise(exc) == [kind |-> "raise", text |-> <<>>, exc |-> exc]

\* generator.generate_script(...) of step 3, the embedded generator's, on what
\* the chat-completion call does.
EmbeddedGenerateScript(wikipedia_content, topic_title, duration_minutes, style, audience, completion) ==
    IF ~CheckRequest(wikipedia_content, duration_minutes).passed
    THEN CheckRequest(wikipedia_content, duration_minutes).result
    ELSE IF completion.kind = "raise"
         THEN GroqExcept(completion.exc)
         ELSE GroqOnText(completion.text,
                         [impl |-> "EmbeddedGroqScriptGenerator",
                          wikipedia_content |-> wikipedia_content,
                          topic_title |-> topic_title,
                          duration_minutes |-> duration_minutes,
                          style |-> style, audience |-> audience])

\* The audio edge_tts saves for a script: the text it was given and the voice.
ScriptAudio(script_data) ==
    [full_text |-> IF "segments" \in DOMAIN script_data
                   THEN script_data.segments ELSE <<>>,
     voice |-> get_voice_for_audience(script_data.target_audience),
     script |-> script_data]

\* ------------------------------------------------------------------------
\* Bounded inputs
\* ------------------------------------------------------------------------
\* Longest segments list a modelled response carries.
MaxTurns == 2

\* How far past each end of 1..10 the requested durations reach.
DurationSlack == 1

\* Longest response drawn lexeme by lexeme from RawLexemes.
MaxRawLen == 3

Str(word) == PyStr(<<word>>)

Obj1(k1, v1) == PyDict(MapPut(EmptyMap, KeyOf(k1), v1))

Obj2(k1, v1, k2, v2) == PyDict(MapPut(MapPut(EmptyMap, KeyOf(k1), v1), KeyOf(k2), v2))

Obj3(k1, v1, k2, v2, k3, v3) ==
    PyDict(MapPut(MapPut(MapPut(EmptyMap, KeyOf(k1), v1), KeyOf(k2), v2), KeyOf(k3), v3))

FullTurn == Obj2("speaker", Str("A"), "text", Str("hi"))

\* The shapes of one entry of the list: complete; no text; no speaker; text of
\* whitespace only; empty speaker.
TurnShapes ==
    { FullTurn,
      Obj1("speaker", Str("X")),
      Obj1("text", Str("hi")),
      Obj2("speaker", Str("A"), "text", PyStr(<<WS>>)),
      Obj2("speaker", PyStr(<<>>), "text", PyStr(<<WS, "hi", WS>>)) }

SeqsUpTo(S, n) == UNION {[1..k -> S] : k \in 0..n}

TurnLists == SeqsUpTo(TurnShapes, MaxTurns)

\* Top-level values that are not objects.
NonObjects ==
    { PyNone, PyBool(TRUE), PyBool(FALSE), PyInt(0), PyInt(5), PyStr(<<>>), Str("hi"),
      PyList(<<>>), PyList(<<PyInt(5)>>), PyList(<<FullTurn, FullTurn>>) }

\* Objects the model may answer with.
ScriptObjects ==
    {Obj1("segments", PyList(l)) : l \in TurnLists}
    \cup {Obj1("dialogue", PyList(l)) : l \in SeqsUpTo({FullTurn, Obj1("speaker", Str("X"))}, 2)}
    \cup { PyDict(EmptyMap),
           Obj2("title", Str("T"), "segments", PyList(<<FullTurn, FullTurn>>)),
           Obj1("segments", PyInt(5)),
           Obj1("segments", PyNone),
           Obj1("segments", Str("hi")),
           Obj1("segments", PyList(<<Str("hi"), PyInt(5)>>)),
           Obj1("segments", PyList(<<Obj2("speaker", Str("A"), "text", PyInt(5))>>)),
           Obj1("segments", PyList(<<Obj3("speaker", Str("A"), "text", Str("hi"),
                                          "duration", Str("quota"))>>)),
           Obj1("segments", PyList(<<Obj3("speaker", Str("A"), "text", Str("hi"),
                                          "duration", Str("5"))>>)) }

Prose == <<"Sorry", CM, WS, "I", WS, "can't", WS, "help", WS, "with", WS, "that", ".">>

\* body inside a code fence with the language tag `tag` (<<>> for none),
\* between `before` and `after`
Fenced(before, tag, body, after) ==
    before \o <<FENCE>> \o tag \o <<WS>> \o body \o <<WS, FENCE>> \o after

\* The ways a response presents the JSON text `body`.
Presentations(body) ==
    { body,
      <<WS>> \o body \o <<WS>>,
      Fenced(<<>>, <<JSONTAG>>, body, <<>>),
      Fenced(<<"Here", WS, "it", WS, "is", CL, WS>>, <<JSONTAG>>, body, <<WS, "Enjoy", ".">>),
      Fenced(<<>>, <<>>, body, <<>>),
      Fenced(<<"Here", CL, WS>>, <<"javascript">>, body, <<>>),
      Fenced(<<"Use", WS, LB, "braces", RB, CL, WS>>, <<"javascript">>, body, <<>>),
      Fenced(<<FENCE, WS, LB, "x", RB, WS, FENCE, WS>>, <<JSONTAG>>, body, <<>>),
      <<"Here", WS, "it", WS, "is", CL, WS>> \o body \o <<WS, "Enjoy", ".">>,
      <<"Smile", WS, CL, RB, WS>> \o body,
      SubSeq(body, 1, Len(body) - 1),
      <<LB, QT, "title", QT, CL, WS, QT, FENCE>> \o body \o <<FENCE, QT, RB>>,
      <<LB, QT, "title", QT, CL, WS, QT, FENCE>> \o body \o <<FENCE, QT, RB, WS, "Enjoy">> }

\* The lexemes of the responses drawn lexeme by lexeme.
RawLexemes == {LB, RB, LK, RK, QT, WS, FENCE, JSONTAG, "null", "5", "Sorry"}

RawTexts == SeqsUpTo(RawLexemes, MaxRawLen)

\* The texts _extract_json is applied to.
ExtractTexts ==
    RawTexts
    \cup UNION {Presentations(Dumps(v)) : v \in ScriptObjects \cup NonObjects}
    \cup {Prose}

\* The response texts of the chat-completion call.
ResponseTexts ==
    {Dumps(v) : v \in ScriptObjects \cup NonObjects}
    \cup Presentations(Dumps(Obj1("segments", PyList(<<FullTurn, FullTurn>>))))
    \cup Presentations(Dumps(PyDict(EmptyMap)))
    \cup {Prose, <<>>}

\* The exceptions the chat-completion call raises.
ModelExceptions ==
    { Raise("ResourceExhausted", <<"4", "2", "9", WS, "RESOURCE_EXHAUSTED">>),
      Raise("Exception", <<"Quota", WS, "exceeded">>),
      Raise("NotFound", <<"4", "0", "4", WS, "model", WS, "not", WS, "found">>),
      Raise("PermissionDenied", <<"API", WS, "key", WS, "invalid">>),
      Raise("ConnectionError", <<"Connection", WS, "reset">>),
      Raise("Exception", <<"API", WS, "Error">>) }

Contents == {<<>>, <<WS>>, <<"ISRO", WS, "launches", WS, "rockets">>}

Topics == {<<>>, <<"ISRO">>}

Durations == (1 - DurationSlack)..(10 + DurationSlack)

Styles == {"Educational"}

\* The audience keys callers pass to the generators: the known ones and one
\* that is in no table.
GeneratorAudiences == (DOMAIN AUDIENCE_PROFILES) \cup {"Seniors"}

\* The audience keys callers pass to build_script_prompt.
PersonaAudiences == (DOMAIN SPEAKER_PERSONAS) \cup {"Seniors", "Adults (19-60)"}

Implementations == {"ScriptGenerator", "EmbeddedGroqScriptGenerator"}

\* The values a caller gives generator.max_retries.
RetryLimits == 0..max_retries

\* Longest list of turns handed to speech synthesis.
MaxSegments == 3

\* Longest pause between turns, in frames.
MaxPause == 2

\* Turns of a script: a known speaker with a plain line, a known speaker with
\* an emotion marker in either notation, and a speaker no persona is named
\* after.
RenderTurns ==
    {[speaker |-> "male", dialogue |-> <<"Namaste">>],
     [speaker |-> "female", dialogue |-> <<"[excited]", WS, "Haan", WS, "*laughs*">>],
     [speaker |-> "Host", dialogue |-> <<"Hello">>]}

RenderSegmentLists ==
    UNION {[1..n -> RenderTurns] : n \in 0..MaxSegments}

\* The engines: the two of tts_engine.py and the class of tts_engine_mock.py.
Engines == {"bark", "elevenlabs", "mock"}

\* An audience key of SPEAKER_PERSONAS and a label of the wizard, which is
\* not one.
RenderAudiences == {"adults", "Adults (19-60)"}

\* How a write to the target path ends.
WriteOutcomes == {"ok", "fails_before_open", "fails_after_open"}

\* The emotion markers of the modelled turns.
EmotionMarkers == {"*laughs*", "[excited]"}

\* The file an earlier render left at the target path.
EarlierRender == FileOf(<<7>>)

\* f"outputs/{safe_filename}.mp3"
TargetPath == "outputs/topic.mp3"

\* The segments of script_data, whose line is under the key 'text'.
ScriptTurns == {[speaker |-> t.speaker, text |-> t.dialogue] : t \in RenderTurns}

ScriptSegmentLists ==
    UNION {[1..n -> ScriptTurns] : n \in 0..MaxSegments}

\* Longest list of speaker lines a checked script begins with.
MaxLines == 2

\* The lines checked scripts begin with: lines of both speakers of kids, a
\* line that names the other speaker, and lines of the other audiences.
ScriptLines ==
    {"BOY: yaar [excited]\n", "GIRL: wo BOY kahan hai [giggles]\n", "GIRL: hello\n",
     "TEEN BOY: toh [umm]\n", "SPEAKER 2: Arey [pause]\n", "ELDER: achha [curious]\n"}

\* The words that follow the lines, which bring the word count to either
\* side of 400, 450 and 550.
FillerWords == {0, 395, 445, 545}

RECURSIVE JoinChars(_)
JoinChars(lines) ==
    IF lines = <<>> THEN <<>> ELSE Chars(Head(lines)) \o JoinChars(Tail(lines))

Filler(n) == [k \in 1..(2 * n) |-> IF k % 2 = 1 THEN "w" ELSE " "]

CheckScripts ==
    {JoinChars(lines) \o Filler(n) :
        lines \in UNION {[1..m -> ScriptLines] : m \in 0..MaxLines}, n \in FillerWords}
    \cup {Chars("Hello world this is a test")}

CheckAudiences == {"kids", "teenagers", "adults", "elders", "Kids (5-12)"}

\* Longest list of options a modelled DisambiguationError carries.
MaxOptions == 2

\* The topics asked for and the titles of the pages there are; the last is
\* the one the tests ask for as an article that does not exist.
FetchTopics == {<<"ISRO">>, <<"Solar", "System">>, <<"ThisArticleDoesNotExist12345XYZ">>}

\* A page with no category, and one with more than the five that are kept.
CategoryCounts == {0, 6}

FetchedPages == {PageOf(title, n) : title \in FetchTopics, n \in CategoryCounts}

OptionLists == UNION {[1..n -> FetchTopics] : n \in 0..MaxOptions}

\* What a page call raises instead of returning a page.
PageExceptions ==
    {PageRaised("DisambiguationError", options) : options \in OptionLists}
        \cup {PageRaised("PageError", <<>>), PageRaised("Exception", <<>>)}


\* Longest list of search results a modelled search gives.
MaxResults == 2

\* The titles Wikipedia has pages for.
WizardTitles == {<<"ISRO">>, <<"Solar", WS, "System">>}

\* What is typed into the search box: nothing, a blank, a word.
Keywords == {<<>>, <<WS>>, <<"ISRO">>}

\* What search_topics returns: the empty list when nothing is found or the
\* request failed.
SearchAnswers == SeqsUpTo({SearchResult(title) : title \in WizardTitles}, MaxResults)

\* What the MediaWiki query answers: a page, under the title asked for or
\* another, with or without an extract; no page; an error.
ArticleAnswers ==
    {ArticlePage(title, extract) :
        title \in WizardTitles, extract \in {<<>>, <<"ISRO", WS, "launches", WS, "rockets">>}}
    \cup {ArticleMissing, ArticleError}

\* What the chat-completion call of step 3 does: a script of two turns, prose
\* with no JSON in it, an empty text, an exception.
Completions ==
    { ChatText(Dumps(Obj1("segments", PyList(<<FullTurn, FullTurn>>)))),
      ChatText(Prose),
      ChatText(<<>>),
      ChatRaise(Raise("Exception", <<"API", WS, "Error">>)) }

\* The ends of the duration slider and a value of the audience radio.
WizardDurations == {1, 10}

WizardAudiences == {"Kids (5-12)"}

\* ------------------------------------------------------------------------
\* State
\* ------------------------------------------------------------------------
VARIABLES
    pc,         \* "idle", "awaiting" (chat completion in flight), "returned", "prompted"
    request,    \* the arguments of the generate_script call under way
    prompt,     \* the prompt built for it
    calls,      \* chat-completion calls issued
    attempt,    \* the retry loop's variable
    response,   \* what the chat-completion call gave: a text or an exception
    result,     \* what generate_script returned
    text,       \* the argument of _extract_json
    xpc,        \* "start", "extracted", "dumped", "again"
    extracted,  \* what _extract_json returned
    extracted2  \* what it returned for the re-serialised value

genVars == <<pc, request, prompt, calls, attempt, response, result, self_max_retries>>

extractVars == <<text, xpc, extracted, extracted2>>

VARIABLES
    rpc,                \* "off", "start", "synthesized", "raised", "merged", "processed", "app_done"
    render_args,        \* the arguments of generate_full_conversation or of the Generate Audio click
    conversation,       \* what generate_full_conversation returned, wrote and called
    merge_args,         \* pause_duration of the merge under way and the file it cannot read
    merged_audio,       \* what merge_segments gave: a clip or an exception
    processed,          \* what process_conversation returned and how often it exported
    output_file,        \* the file at the target path
    output_before,      \* the file that was there before the render
    edge_call,          \* the text and voice given to edge_tts.Communicate
    session_audio_path  \* st.session_state.audio_path

renderVars == <<rpc, render_args, conversation, merge_args, merged_audio, processed,
                output_file, output_before, edge_call, session_audio_path>>

VARIABLES
    spc,         \* "off", "start", "looping", "raised", "synthesized", "saving", "app_done"
    synth_args,  \* the arguments of the generate_full_conversation call under way
    synth_acc,   \* audio_files and the files written so far
    next_turn,   \* the loop's position: the turn whose synthesis starts next
    in_flight,   \* the turns whose synthesis call has started and not returned
    synth_log    \* the starts and returns of the synthesis calls, in order

synthVars == <<spc, synth_args, synth_acc, next_turn, in_flight, synth_log>>

VARIABLES
    cpc,             \* "off", "start", "validated", "counted"
    check_script,    \* the text given to validate_generated_script or count_words
    check_audience,  \* the audience given to validate_generated_script
    validation,      \* what validate_generated_script returned
    counted          \* what count_words returned

checkVars == <<cpc, check_script, check_audience, validation, counted>>

VARIABLES
    fpc,          \* "off", "start", "page_call", "option_call", "returned"
    fetch_topic,  \* the topic given to fetch_article
    first_page,   \* what wikipedia.page(topic, auto_suggest=True) gave
    option_page,  \* what wikipedia.page(e.options[0], auto_suggest=False) gave
    article       \* what fetch_article returned

fetchVars == <<fpc, fetch_topic, first_page, option_page, article>>

VARIABLES
    step,            \* st.session_state.step
    search_results,  \* st.session_state.search_results
    selected_topic,  \* st.session_state.selected_topic
    wiki_content,    \* st.session_state.wiki_content
    script_data,     \* st.session_state.script_data
    audio_path,      \* st.session_state.audio_path
    outputs,         \* the files of the outputs directory
    fetched_for,     \* the title the get_article_content call behind wiki_content was given
    script_request   \* the arguments of the generate_script call behind script_data

wizardVars == <<step, search_results, selected_topic, wiki_content, script_data,
                audio_path, outputs, fetched_for, script_request>>

\* The state outside the script generator, _extract_json and the one-step
\* render.
pipelineVars == <<synthVars, checkVars, fetchVars, wizardVars>>

vars == <<pc, request, prompt, calls, attempt, response, result, self_max_retries,
          text, xpc, extracted, extracted2,
          rpc, render_args, conversation, merge_args, merged_audio, processed,
          output_file, output_before, edge_call, session_audio_path,
          pipelineVars>>

Pending == [t |-> "pending"]

GenInit ==
    /\ pc = "idle"
    /\ request = Pending
    /\ prompt = Pending
    /\ calls = 0
    /\ attempt = 0
    /\ response = Pending
    /\ result = Pending
    /\ self_max_retries = max_retries

ExtractIdle ==
    /\ text = <<>>
    /\ xpc = "off"
    /\ extracted = Pending
    /\ extracted2 = Pending

RenderIdle ==
    /\ rpc = "off"
    /\ render_args = Pending
    /\ conversation = Pending
    /\ merge_args = Pending
    /\ merged_audio = Pending
    /\ processed = Pending
    /\ output_file = NoFile
    /\ output_before = output_file
    /\ edge_call = Pending
    /\ session_audio_path = "None"

SynthIdle ==
    /\ spc = "off"
    /\ synth_args = Pending
    /\ synth_acc = Pending
    /\ next_turn = 0
    /\ in_flight = {}
    /\ synth_log = <<>>

CheckIdle ==
    /\ cpc = "off"
    /\ check_script = <<>>
    /\ check_audience = "kids"
    /\ validation = Pending
    /\ counted = -1

FetchIdle ==
    /\ fpc = "off"
    /\ fetch_topic = <<>>
    /\ first_page = Pending
    /\ option_page = Pending
    /\ article = Pending

\* The session state a new session starts with, and an empty outputs
\* directory.
SessionStart ==
    /\ step = 1
    /\ search_results = <<>>
    /\ selected_topic = PyNone
    /\ wiki_content = PyNone
    /\ script_data = PyNone
    /\ audio_path = PyNone
    /\ outputs = NoFiles
    /\ fetched_for = PyNone
    /\ script_request = Pending

PipelineIdle == SynthIdle /\ CheckIdle /\ FetchIdle /\ SessionStart

Init == GenInit /\ ExtractIdle /\ RenderIdle /\ PipelineIdle

\* ------------------------------------------------------------------------
\* generate_script, from the call to the chat-completion request
\* ------------------------------------------------------------------------
BuilderPrompt(req) ==
    IF req.impl = "ScriptGenerator"
    THEN BuildAudiencePrompt(req.wikipedia_content, req.topic_title, req.duration_minutes,
                             req.style, req.audience)
    ELSE BuildPrompt(req.wikipedia_content, req.topic_title, req.duration_minutes,
                     req.style, req.audience)

\* Whether control reaches the chat-completion call once the checks passed:
\* always in the embedded generator, in the first iteration of
\* `for attempt in range(self.max_retries)` in ScriptGenerator.
ReachesCall(req) == req.impl = "EmbeddedGroqScriptGenerator" \/ 0 < self_max_retries

GenerateScript(impl, wikipedia_content, topic_title, duration_minutes, style, audience) ==
    LET req == [impl |-> impl, wikipedia_content |-> wikipedia_content,
                topic_title |-> topic_title, duration_minutes |-> duration_minutes,
                style |-> style, audience |-> audience]
        check == CheckRequest(wikipedia_content, duration_minutes)
    IN  /\ pc = "idle"
        /\ request' = req
        /\ attempt' = 0
        /\ response' = response
        /\ IF ~check.passed
           THEN /\ pc' = "returned"
                /\ result' = check.result
                /\ prompt' = prompt
                /\ calls' = calls
           ELSE IF ReachesCall(req)
           THEN /\ pc' = "awaiting"
                /\ result' = result
                /\ prompt' = BuilderPrompt(req)
                /\ calls' = calls + 1
           ELSE /\ pc' = "returned"
                /\ result' = PyNone
                /\ prompt' = BuilderPrompt(req)
                /\ calls' = calls
        /\ UNCHANGED self_max_retries
        /\ UNCHANGED <<extractVars, renderVars, pipelineVars>>

\* Whether an iteration of `for attempt in range(self.max_retries)` that
\* produced res goes on to the next iteration after a quota failure.
FallsThroughOnQuota(res) == "retry_after" \in DOMAIN res

\* Whether an iteration of `for attempt in range(self.max_retries)` ends
\* without a return or a raise, so that the loop goes on: every branch of the
\* loop body returns or raises.
FallsThrough(res) == FALSE

\* The end of one pass through the try/except of generate_script that
\* produced res: the return, or the next iteration of the retry loop, or the
\* end of the loop, after which the function returns None.
AfterIteration(res) ==
    IF request.impl = "ScriptGenerator" /\ FallsThrough(res)
    THEN IF attempt + 1 < self_max_retries
         THEN /\ pc' = "awaiting"
              /\ attempt' = attempt + 1
              /\ calls' = calls + 1
              /\ result' = result
         ELSE /\ pc' = "returned"
              /\ result' = PyNone
              /\ UNCHANGED <<attempt, calls>>
    ELSE /\ pc' = "returned"
         /\ result' = res
         /\ UNCHANGED <<attempt, calls>>

\* The chat-completion call returns a text.
ModelReturns(t) ==
    /\ pc = "awaiting"
    /\ response' = [kind |-> "text", text |-> t]
    /\ AfterIteration(IF request.impl = "ScriptGenerator"
                      THEN GeminiOnText(t, request, attempt)
                      ELSE GroqOnText(t, request))
    /\ UNCHANGED <<request, prompt, self_max_retries>>
    /\ UNCHANGED <<extractVars, renderVars, pipelineVars>>

\* The chat-completion call raises.
ModelRaises(exc) ==
    /\ pc = "awaiting"
    /\ response' = [kind |-> "raise", exc |-> exc]
    /\ AfterIteration(IF request.impl = "ScriptGenerator"
                      THEN GeminiInnerExcept(exc, attempt)
                      ELSE GroqExcept(exc))
    /\ UNCHANGED <<request, prompt, self_max_retries>>
    /\ UNCHANGED <<extractVars, renderVars, pipelineVars>>

\* A caller assigns generator.max_retries before calling generate_script.
SetMaxRetries(n) ==
    /\ pc = "idle"
    /\ self_max_retries # n
    /\ self_max_retries' = n
    /\ UNCHANGED <<pc, request, prompt, calls, attempt, response, result>>
    /\ UNCHANGED <<extractVars, renderVars, pipelineVars>>

\* prompt_builder.build_script_prompt called on its own.
BuildScriptPrompt(topic, tone, audience, wikipedia_content) ==
    /\ pc = "idle"
    /\ pc' = "prompted"
    /\ request' = [impl |-> "prompt_builder", wikipedia_content |-> wikipedia_content,
                   topic_title |-> topic, duration_minutes |-> 2, style |-> tone,
                   audience |-> audience]
    /\ prompt' = build_script_prompt(topic, tone, audience, wikipedia_content)
    /\ UNCHANGED <<calls, attempt, response, result, self_max_retries>>
    /\ UNCHANGED <<extractVars, renderVars, pipelineVars>>

Next ==
    \/ \E impl \in Implementations, c \in Contents, tt \in Topics, d \in Durations,
          st \in Styles, a \in GeneratorAudiences :
            GenerateScript(impl, c, tt, d, st, a)
    \/ \E t \in ResponseTexts : ModelReturns(t)
    \/ \E exc \in ModelExceptions : ModelRaises(exc)
    \/ \E tt \in Topics, tone \in Tones \cup {"sarcastic"}, a \in PersonaAudiences,
          c \in Contents :
            BuildScriptPrompt(tt, tone, a, c)
    \/ \E n \in RetryLimits : SetMaxRetries(n)

Spec == Init /\ [][Next]_vars

\* ------------------------------------------------------------------------
\* _extract_json applied to a text, then to the re-serialised value
\* ------------------------------------------------------------------------
ExtractInit ==
    /\ GenInit
    /\ text \in ExtractTexts
    /\ xpc = "start"
    /\ extracted = Pending
    /\ extracted2 = Pending
    /\ RenderIdle
    /\ PipelineIdle

ExtractJsonCall ==
    /\ xpc = "start"
    /\ extracted' = ExtractJson(text)
    /\ xpc' = "extracted"
    /\ UNCHANGED <<text, extracted2>>
    /\ UNCHANGED <<genVars, renderVars, pipelineVars>>

\* json.dumps of the extracted value, handed to _extract_json again.
ExtractAgain ==
    /\ xpc = "extracted"
    /\ extracted.via # "none"
    /\ extracted2' = ExtractJson(Dumps(extracted.val))
    /\ xpc' = "again"
    /\ UNCHANGED <<text, extracted>>
    /\ UNCHANGED <<genVars, renderVars, pipelineVars>>

ExtractNext == ExtractJsonCall \/ ExtractAgain

SpecExtract == ExtractInit /\ [][ExtractNext]_vars

\* ------------------------------------------------------------------------
\* Rendering a script: synthesis of the turns, merge, export, and the
\* Generate Audio button
\* ------------------------------------------------------------------------
RenderInit ==
    /\ GenInit
    /\ ExtractIdle
    /\ PipelineIdle
    /\ rpc = "start"
    /\ render_args = Pending
    /\ conversation = Pending
    /\ merge_args = Pending
    /\ merged_audio = Pending
    /\ processed = Pending
    /\ output_file \in {NoFile, EarlierRender}
    /\ output_before = output_file
    /\ edge_call = Pending
    /\ session_audio_path = "None"

\* tts.generate_full_conversation(segments, audience, output_dir)
GenerateFullConversation(engine, segments, audience, failing) ==
    /\ rpc = "start"
    /\ failing \subseteq 0..(Len(segments) - 1)
    /\ render_args' = [engine |-> engine, segments |-> segments, audience |-> audience]
    /\ conversation' = GenerateFullConversationResult(engine, segments, audience, failing)
    /\ rpc' = IF conversation'.raised # "none" THEN "raised" ELSE "synthesized"
    /\ UNCHANGED <<merge_args, merged_audio, processed, output_file, output_before,
                   edge_call, session_audio_path>>
    /\ UNCHANGED <<genVars, extractVars, pipelineVars>>

\* processor.merge_segments(audio_files, pause_duration) on the returned list
MergeSegmentsCall(pause_duration, unreadable) ==
    /\ rpc = "synthesized"
    /\ unreadable <= Len(conversation.audio_files)
    /\ merge_args' = [pause_duration |-> pause_duration, unreadable |-> unreadable]
    /\ merged_audio' = MergeSegments(conversation.audio_files, pause_duration,
                                     conversation.files, unreadable)
    /\ rpc' = "merged"
    /\ UNCHANGED <<render_args, conversation, processed, output_file, output_before,
                   edge_call, session_audio_path>>
    /\ UNCHANGED <<genVars, extractVars, pipelineVars>>

\* What process_conversation leaves behind, done being its outcome.
ProcessConversationDone(done) ==
    /\ merged_audio' = done.merged
    /\ processed' = [returned |-> done.returned, exports |-> done.exports]
    /\ output_file' = done.file

\* processor.process_conversation(audio_files, output_path, pause_duration)
\* on the returned list
ProcessConversationCall(pause_duration, unreadable, outcome) ==
    /\ rpc = "synthesized"
    /\ unreadable <= Len(conversation.audio_files)
    /\ merge_args' = [pause_duration |-> pause_duration, unreadable |-> unreadable]
    /\ ProcessConversationDone(
           ProcessConversation(conversation.audio_files, pause_duration,
                               conversation.files, unreadable, output_file, outcome))
    /\ rpc' = "processed"
    /\ UNCHANGED <<render_args, conversation, output_before, edge_call, session_audio_path>>
    /\ UNCHANGED <<genVars, extractVars, pipelineVars>>

\* The Generate Audio button of step 4: the assignment to
\* st.session_state.audio_path follows the save, the except clause shows the
\* error and assigns nothing.
GenerateAudio(segments, audience, outcome) ==
    /\ rpc = "start"
    /\ render_args' = [engine |-> "edge_tts", segments |-> segments, audience |-> audience]
    /\ edge_call' = [text |-> FullText(segments), voice |-> get_voice_for_audience(audience)]
    /\ output_file' = WrittenFile(output_file, EdgeSpeech(FullText(segments)), outcome)
    /\ session_audio_path' = IF outcome = "ok" THEN TargetPath ELSE session_audio_path
    /\ processed' = [returned |-> outcome = "ok", exports |-> 1]
    /\ rpc' = "app_done"
    /\ UNCHANGED <<conversation, merge_args, merged_audio, output_before>>
    /\ UNCHANGED <<genVars, extractVars, pipelineVars>>

\* The arguments are drawn only in the state a call is made from.
RenderNext ==
    \/ \E engine \in Engines,
          segments \in (IF rpc = "start" THEN RenderSegmentLists ELSE {}),
          audience \in RenderAudiences, failing \in SUBSET (0..(MaxSegments - 1)) :
          GenerateFullConversation(engine, segments, audience, failing)
    \/ \E pause_duration \in 0..MaxPause, unreadable \in 0..MaxSegments :
          MergeSegmentsCall(pause_duration, unreadable)
    \/ \E pause_duration \in 0..MaxPause, unreadable \in 0..MaxSegments,
          outcome \in WriteOutcomes :
          ProcessConversationCall(pause_duration, unreadable, outcome)
    \/ \E segments \in (IF rpc = "start" THEN ScriptSegmentLists ELSE {}),
          audience \in {"Kids (5-12)", "adults"}, outcome \in WriteOutcomes :
          GenerateAudio(segments, audience, outcome)

SpecRender == RenderInit /\ [][RenderNext]_vars

\* ------------------------------------------------------------------------
\* generate_full_conversation and the Generate Audio button, call by call
\* ------------------------------------------------------------------------
SynthInit ==
    /\ GenInit
    /\ ExtractIdle
    /\ RenderIdle
    /\ CheckIdle
    /\ FetchIdle
    /\ SessionStart
    /\ spc = "start"
    /\ synth_args = Pending
    /\ synth_acc = Pending
    /\ next_turn = 0
    /\ in_flight = {}
    /\ synth_log = <<>>

\* generate_full_conversation(segments, audience, output_dir) up to its loop
EnterConversation(engine, segments, audience) ==
    /\ spc = "start"
    /\ synth_args' = [engine |-> engine, segments |-> segments, audience |-> audience]
    /\ synth_acc' = [raised |-> "none", audio_files |-> <<>>, files |-> NoFiles,
                     spoken |-> <<>>, failed |-> {}]
    /\ spc' = "looping"
    /\ UNCHANGED <<next_turn, in_flight, synth_log>>
    /\ UNCHANGED <<genVars, extractVars, renderVars, checkVars, fetchVars, wizardVars>>

\* success = self.generate_dialogue_segment(...) is an ordinary call: the
\* loop stands still until it has returned.
CallOverlaps(flight) == TRUE

CallReturned(flight) == flight = {}

\* The loop reaches the call for its next segment.  persona[...] of an
\* unknown speaker or audience raises before any synthesis.
BeginTurn ==
    /\ spc = "looping"
    /\ next_turn < Len(synth_args.segments)
    /\ CallReturned(in_flight)
    /\ IF /\ synth_args.engine # "mock"
          /\ ~get_persona(synth_args.audience,
                          synth_args.segments[next_turn + 1].speaker).found
       THEN /\ spc' = "raised"
            /\ synth_acc' = [synth_acc EXCEPT !.raised = "KeyError"]
            /\ UNCHANGED <<next_turn, in_flight, synth_log>>
       ELSE /\ in_flight' = in_flight \cup {next_turn}
            /\ synth_log' = Append(synth_log, [ev |-> "start", turn |-> next_turn])
            /\ next_turn' = next_turn + 1
            /\ UNCHANGED <<spc, synth_acc>>
    /\ UNCHANGED synth_args
    /\ UNCHANGED <<genVars, extractVars, renderVars, checkVars, fetchVars, wizardVars>>

\* The call for turn i returns True or False; the loop appends the path or
\* prints the failure.
TurnReturns(i, synth_ok) ==
    /\ spc = "looping"
    /\ i \in in_flight
    /\ synth_acc' = AfterSegment(synth_acc,
           GenerateDialogueSegment(synth_args.engine, synth_args.segments[i + 1].dialogue,
               synth_args.segments[i + 1].speaker, synth_args.audience, i, synth_ok),
           SegmentPath(i, synth_args.segments[i + 1].speaker))
    /\ in_flight' = in_flight \ {i}
    /\ synth_log' = Append(synth_log, [ev |-> "end", turn |-> i])
    /\ UNCHANGED <<spc, synth_args, next_turn>>
    /\ UNCHANGED <<genVars, extractVars, renderVars, checkVars, fetchVars, wizardVars>>

\* return audio_files
ReturnAudioFiles ==
    /\ spc = "looping"
    /\ next_turn = Len(synth_args.segments)
    /\ in_flight = {}
    /\ spc' = "synthesized"
    /\ UNCHANGED <<synth_args, synth_acc, next_turn, in_flight, synth_log>>
    /\ UNCHANGED <<genVars, extractVars, renderVars, checkVars, fetchVars, wizardVars>>

\* The Generate Audio button up to asyncio.run(generate_audio()): one
\* Communicate for the joined text of all segments.
ClickGenerateAudio(segments, audience) ==
    /\ spc = "start"
    /\ synth_args' = [engine |-> "edge_tts", segments |-> segments, audience |-> audience]
    /\ synth_acc' = [raised |-> "none", audio_files |-> <<>>, files |-> NoFiles,
                     spoken |-> <<[text |-> FullText(segments),
                                   voice |-> get_voice_for_audience(audience)]>>,
                     failed |-> {}]
    /\ in_flight' = {0}
    /\ synth_log' = Append(synth_log, [ev |-> "start", turn |-> 0])
    /\ next_turn' = 1
    /\ spc' = "saving"
    /\ UNCHANGED <<genVars, extractVars, renderVars, checkVars, fetchVars, wizardVars>>

\* asyncio.run returns or raises.
SaveReturns(outcome) ==
    /\ spc = "saving"
    /\ in_flight' = {}
    /\ synth_log' = Append(synth_log, [ev |-> "end", turn |-> 0])
    /\ synth_acc' = [synth_acc EXCEPT !.failed = IF outcome = "ok" THEN {} ELSE {0}]
    /\ spc' = "app_done"
    /\ UNCHANGED <<synth_args, next_turn>>
    /\ UNCHANGED <<genVars, extractVars, renderVars, checkVars, fetchVars, wizardVars>>

SynthNext ==
    \/ \E engine \in Engines,
          segments \in (IF spc = "start" THEN RenderSegmentLists ELSE {}),
          audience \in RenderAudiences :
          EnterConversation(engine, segments, audience)
    \/ BeginTurn
    \/ \E i \in in_flight, synth_ok \in BOOLEAN : TurnReturns(i, synth_ok)
    \/ ReturnAudioFiles
    \/ \E segments \in (IF spc = "start" THEN ScriptSegmentLists ELSE {}),
          audience \in {"Kids (5-12)", "adults"} :
          ClickGenerateAudio(segments, audience)
    \/ \E outcome \in WriteOutcomes : SaveReturns(outcome)

SpecSynth == SynthInit /\ [][SynthNext]_vars

\* ------------------------------------------------------------------------
\* Checking a script: validate_generated_script and count_words
\* ------------------------------------------------------------------------
CheckInit ==
    /\ GenInit
    /\ ExtractIdle
    /\ RenderIdle
    /\ SynthIdle
    /\ FetchIdle
    /\ SessionStart
    /\ cpc = "start"
    /\ check_script \in CheckScripts
    /\ check_audience \in CheckAudiences
    /\ validation = Pending
    /\ counted = -1

\* is_valid, issues = validate_generated_script(script, audience)
ValidateGeneratedScript ==
    /\ cpc = "start"
    /\ validation' = validate_generated_script(check_script, check_audience)
    /\ cpc' = "validated"
    /\ UNCHANGED <<check_script, check_audience, counted>>
    /\ UNCHANGED <<genVars, extractVars, renderVars, synthVars, fetchVars, wizardVars>>

\* count = count_words(text)
CountWords ==
    /\ cpc = "start"
    /\ counted' = count_words(check_script)
    /\ cpc' = "counted"
    /\ UNCHANGED <<check_script, check_audience, validation>>
    /\ UNCHANGED <<genVars, extractVars, renderVars, synthVars, fetchVars, wizardVars>>

CheckNext == ValidateGeneratedScript \/ CountWords

SpecCheck == CheckInit /\ [][CheckNext]_vars

\* ------------------------------------------------------------------------
\* fetch_article, page call by page call
\* ------------------------------------------------------------------------
FetchInit ==
    /\ GenInit
    /\ ExtractIdle
    /\ RenderIdle
    /\ SynthIdle
    /\ CheckIdle
    /\ SessionStart
    /\ fpc = "start"
    /\ fetch_topic = <<>>
    /\ first_page = Pending
    /\ option_page = Pending
    /\ article = Pending

\* fetch_article(topic) up to the call wikipedia.page(topic, auto_suggest=True)
FetchArticle(topic) ==
    /\ fpc = "start"
    /\ fpc' = "page_call"
    /\ fetch_topic' = topic
    /\ UNCHANGED <<first_page, option_page, article>>
    /\ UNCHANGED <<genVars, extractVars, renderVars, synthVars, checkVars, wizardVars>>

\* The page call returns a page object: the dict is built and returned.
PageReturns(page) ==
    /\ fpc = "page_call"
    /\ first_page' = page
    /\ article' = fetch_article(fetch_topic, page, Pending)
    /\ fpc' = "returned"
    /\ UNCHANGED <<fetch_topic, option_page>>
    /\ UNCHANGED <<genVars, extractVars, renderVars, synthVars, checkVars, wizardVars>>

\* The page call raises: the handlers of DisambiguationError, PageError and
\* Exception; only a DisambiguationError with options makes a second call.
PageRaises(exc) ==
    /\ fpc = "page_call"
    /\ first_page' = exc
    /\ IF exc.kind = "DisambiguationError" /\ exc.options # <<>>
       THEN /\ fpc' = "option_call"
            /\ article' = article
       ELSE /\ fpc' = "returned"
            /\ article' = fetch_article(fetch_topic, exc, Pending)
    /\ UNCHANGED <<fetch_topic, option_page>>
    /\ UNCHANGED <<genVars, extractVars, renderVars, synthVars, checkVars, wizardVars>>

\* The page call for the first option returns or raises.
OptionPageSettles(outcome) ==
    /\ fpc = "option_call"
    /\ option_page' = outcome
    /\ article' = fetch_article(fetch_topic, first_page, outcome)
    /\ fpc' = "returned"
    /\ UNCHANGED <<fetch_topic, first_page>>
    /\ UNCHANGED <<genVars, extractVars, renderVars, synthVars, checkVars, wizardVars>>

FetchNext ==
    \/ \E topic \in FetchTopics : FetchArticle(topic)
    \/ \E page \in FetchedPages : PageReturns(page)
    \/ \E exc \in PageExceptions : PageRaises(exc)
    \/ \E outcome \in FetchedPages \cup {PageRaised(kind, <<>>) :
                         kind \in {"PageError", "DisambiguationError", "Exception"}} :
           OptionPageSettles(outcome)

SpecFetch == FetchInit /\ [][FetchNext]_vars

\* ------------------------------------------------------------------------
\* The wizard of app.py: one action a button, on one session
\* ------------------------------------------------------------------------
WizardInit ==
    /\ GenInit
    /\ ExtractIdle
    /\ RenderIdle
    /\ SynthIdle
    /\ CheckIdle
    /\ FetchIdle
    /\ SessionStart

\* The mutant of the test of the search results: an empty list passes.
HasResultsAlways(results) == TRUE

\* `if results:` of step 1
HasResults(results) == results # <<>>

\* Step 1, Search: the results are stored and step 2 is entered only when the
\* keyword is not blank, the handler was imported and the list is not empty.
Search(search_keyword, wiki_ok, results) ==
    /\ step = 1
    /\ IF Strip(search_keyword) # <<>> /\ wiki_ok /\ HasResults(results)
       THEN /\ search_results' = results
            /\ step' = 2
       ELSE UNCHANGED <<search_results, step>>
    /\ UNCHANGED <<selected_topic, wiki_content, script_data, audio_path, outputs,
                   fetched_for, script_request>>
    /\ UNCHANGED <<genVars, extractVars, renderVars, synthVars, checkVars, fetchVars>>

\* Step 2, Select of entry idx: the article is fetched and stored with the
\* title.
Select(idx, answer) ==
    /\ step = 2
    /\ idx \in 1..Len(search_results)
    /\ selected_topic' = PyStr(search_results[idx].title)
    /\ wiki_content' = get_article_content(search_results[idx].title, article_max_chars,
                                           answer)
    /\ fetched_for' = PyStr(search_results[idx].title)
    /\ step' = 3
    /\ UNCHANGED <<search_results, script_data, audio_path, outputs, script_request>>
    /\ UNCHANGED <<genVars, extractVars, renderVars, synthVars, checkVars, fetchVars>>

\* Step 2, Back to Search
BackToSearch ==
    /\ step = 2
    /\ step' = 1
    /\ UNCHANGED <<search_results, selected_topic, wiki_content, script_data, audio_path,
                   outputs, fetched_for, script_request>>
    /\ UNCHANGED <<genVars, extractVars, renderVars, synthVars, checkVars, fetchVars>>

\* The mutant of the test of the result: any result is stored.
StoresScriptAlways(res) == TRUE

\* `if result.get("success")`
StoresScript(res) == res.success

\* The mutant of the assignment to audio_path that goes with a new script: the
\* path is kept.
AudioPathKept(path) == path

\* `st.session_state.audio_path = None` of step 3
AudioPathWithNewScript(path) == PyNone

\* Step 3, Generate Podcast Script: the button is disabled without a key; a
\* result with success is stored, audio_path is cleared and step 4 is
\* entered; a failure is shown and nothing is stored.
GeneratePodcastScript(groq_key, duration, style, audience, completion) ==
    LET generated == EmbeddedGenerateScript(wiki_content.full_text, selected_topic.s,
                                         duration, style, audience, completion)
    IN  /\ step = 3
        /\ IF groq_key /\ StoresScript(generated)
           THEN /\ script_data' = generated
                /\ audio_path' = AudioPathWithNewScript(audio_path)
                /\ step' = 4
                /\ script_request' = [topic_title |-> selected_topic.s]
           ELSE UNCHANGED <<script_data, audio_path, step, script_request>>
        /\ UNCHANGED <<search_results, selected_topic, wiki_content, outputs, fetched_for>>
        /\ UNCHANGED <<genVars, extractVars, renderVars, synthVars, checkVars, fetchVars>>

\* Step 3, Change Topic
ChangeTopic ==
    /\ step = 3
    /\ step' = 2
    /\ UNCHANGED <<search_results, selected_topic, wiki_content, script_data, audio_path,
                   outputs, fetched_for, script_request>>
    /\ UNCHANGED <<genVars, extractVars, renderVars, synthVars, checkVars, fetchVars>>

\* Step 4, Regenerate Script
RegenerateScript ==
    /\ step = 4
    /\ step' = 3
    /\ UNCHANGED <<search_results, selected_topic, wiki_content, script_data, audio_path,
                   outputs, fetched_for, script_request>>
    /\ UNCHANGED <<genVars, extractVars, renderVars, synthVars, checkVars, fetchVars>>

\* The file at a path of the outputs directory.
OutputAt(path) == IF path \in DOMAIN outputs THEN outputs[path] ELSE NoFile

\* Step 4, Generate Audio, shown while audio_path is not set: the audio of the
\* script is saved at the path made from the topic, and the path is stored
\* once the save returned; an exception of the save is shown.
WizardGenerateAudio(outcome) ==
    LET path == AudioPathOf(selected_topic.s)
    IN  /\ step = 4
        /\ ~Truthy(audio_path)
        /\ outputs' = IF outcome = "fails_before_open"
                      THEN outputs
                      ELSE [p \in DOMAIN outputs \cup {path} |->
                               IF p = path
                               THEN WrittenFile(OutputAt(path), ScriptAudio(script_data),
                                                outcome)
                               ELSE outputs[p]]
        /\ audio_path' = IF outcome = "ok" THEN PyStr(path) ELSE audio_path
        /\ UNCHANGED <<step, search_results, selected_topic, wiki_content, script_data,
                       fetched_for, script_request>>
        /\ UNCHANGED <<genVars, extractVars, renderVars, synthVars, checkVars, fetchVars>>

\* Step 4, New Topic
NewTopic ==
    /\ step = 4
    /\ step' = 1
    /\ search_results' = <<>>
    /\ selected_topic' = PyNone
    /\ script_data' = PyNone
    /\ audio_path' = PyNone
    /\ script_request' = Pending
    /\ UNCHANGED <<wiki_content, outputs, fetched_for>>
    /\ UNCHANGED <<genVars, extractVars, renderVars, synthVars, checkVars, fetchVars>>

WizardNext ==
    \/ \E search_keyword \in Keywords, wiki_ok \in BOOLEAN,
          results \in (IF step = 1 THEN SearchAnswers ELSE {}) :
            Search(search_keyword, wiki_ok, results)
    \/ \E idx \in 1..MaxResults, answer \in ArticleAnswers : Select(idx, answer)
    \/ BackToSearch
    \/ \E groq_key \in BOOLEAN, duration \in WizardDurations, style \in Styles,
          audience \in WizardAudiences,
          completion \in (IF step = 3 THEN Completions ELSE {}) :
            GeneratePodcastScript(groq_key, duration, style, audience, completion)
    \/ ChangeTopic
    \/ RegenerateScript
    \/ \E outcome \in WriteOutcomes : WizardGenerateAudio(outcome)
    \/ NewTopic

SpecWizard == WizardInit /\ [][WizardNext]_vars

\* ------------------------------------------------------------------------
\* Properties of generate_script (checked under Spec)
\* ------------------------------------------------------------------------
\* C1: whenever generate_script returns a successful result, the result
\* carries a segment list of at least 2 turns, and every turn has a non-empty
\* speaker and a non-empty text after trimming whitespace.
C1_SuccessHasTwoCompleteTurns ==
    (pc = "returned" /\ result # PyNone /\ result.success) =>
        /\ "segments" \in DOMAIN result
        /\ Len(result.segments) >= 2
        /\ \A i \in 1..Len(result.segments) :
              /\ result.segments[i].speaker.t = "str"
              /\ Strip(result.segments[i].speaker.s) # <<>>
              /\ result.segments[i].text.t = "str"
              /\ Strip(result.segments[i].text.s) # <<>>

\* C2: when none of the three extraction strategies parses the response text,
\* generate_script returns a failure, and no result built from the raw
\* response.
C2_UnparseableResponseFails ==
    (/\ pc = "returned"
     /\ response # Pending
     /\ response.kind = "text"
     /\ ExtractJson(response.text).via = "none") =>
        (~result.success /\ "raw_response" \notin DOMAIN result)

\* C3: when the object extracted from the response has no list of turns (under
\* "segments" or "dialogue"), or a list of fewer than 2 turns, or a turn
\* without a non-empty speaker or a non-empty text, generate_script returns a
\* failure.
C3_InvalidStructureRejected ==
    LET NonBlankStr(d, k) ==
            /\ KeyOf(k) \in DOMAIN d.m
            /\ d.m[KeyOf(k)].t = "str"
            /\ Strip(d.m[KeyOf(k)].s) # <<>>
        CompleteTurn(x) ==
            x.t = "dict" /\ NonBlankStr(x, "speaker") /\ NonBlankStr(x, "text")
        TurnsOf(obj) ==
            IF KeyOf("segments") \in DOMAIN obj.m THEN obj.m[KeyOf("segments")]
            ELSE DictGet(obj, KeyOf("dialogue"), PyNone)
        WellFormed(obj) ==
            /\ TurnsOf(obj).t = "list"
            /\ Len(TurnsOf(obj).items) >= 2
            /\ \A i \in 1..Len(TurnsOf(obj).items) : CompleteTurn(TurnsOf(obj).items[i])
    IN  (/\ pc = "returned"
         /\ response # Pending
         /\ response.kind = "text"
         /\ ExtractJson(response.text).val.t = "dict"
         /\ ~WellFormed(ExtractJson(response.text).val)) =>
            ~result.success

\* C4: when the response text is valid JSON whose top-level value is not an
\* object, generate_script returns a failure, and _extract_json returns an
\* object or reports that nothing was found.
C4_NonObjectNeverSucceeds ==
    (/\ pc = "returned"
     /\ response # Pending
     /\ response.kind = "text"
     /\ Loads(response.text).ok
     /\ Loads(response.text).val.t # "dict") =>
        /\ ~result.success
        /\ \/ ExtractJson(response.text).via = "none"
           \/ ExtractJson(response.text).val.t = "dict"

\* C8: for an audience key in no table, prompt construction raises nothing and
\* the prompt is, the key's name apart, the one built for the Adults key.
C8_UnknownAudienceFallsBack ==
    (/\ pc \in {"awaiting", "returned", "prompted"}
     /\ prompt # Pending
     /\ request.audience \notin (DOMAIN AUDIENCE_PROFILES) \cup (DOMAIN SPEAKER_PERSONAS)) =>
        /\ prompt.raised = "none"
        /\ IF prompt.builder = "build_script_prompt"
           THEN [prompt EXCEPT !.audience = "adults"]
                    = build_script_prompt(request.topic_title, request.style, "adults",
                                          request.wikipedia_content)
           ELSE [prompt EXCEPT !.audience = DefaultAudience]
                    = BuilderPrompt([request EXCEPT !.audience = DefaultAudience])

\* C9: a generate_script call with duration_minutes outside 1..10 returns a
\* failure without any chat-completion call; with duration_minutes inside
\* 1..10 it is not answered with the duration failure, and with non-blank
\* content it goes on to prompt construction.
C9_DurationFailsFast ==
    pc \in {"awaiting", "returned"} =>
        /\ request.duration_minutes \notin 1..10 =>
              /\ pc = "returned"
              /\ ~result.success
              /\ calls = 0
              /\ response = Pending
        /\ request.duration_minutes \in 1..10 =>
              /\ result # Failure("Duration must be between 1 and 10 minutes")
              /\ Strip(request.wikipedia_content) # <<>> => prompt # Pending

\* C9's case: non-blank content and a duration just below the range, answered
\* with the duration failure and no call.
C9_Witness ==
    /\ pc = "returned"
    /\ Strip(request.wikipedia_content) # <<>>
    /\ request.duration_minutes = 0
    /\ result = Failure("Duration must be between 1 and 10 minutes")
    /\ calls = 0

\* C10: a generate_script call with an empty topic returns a failure and never
\* reaches prompt construction or the chat-completion call.
C10_EmptyTopicRejected ==
    (pc \in {"awaiting", "returned"} /\ request.topic_title = <<>>) =>
        /\ pc = "returned"
        /\ result # PyNone
        /\ ~result.success
        /\ prompt = Pending
        /\ calls = 0

C12_RetriesAfterInvalidResponse ==
    (/\ pc = "returned"
     /\ request.impl = "ScriptGenerator"
     /\ self_max_retries >= 2
     /\ response # Pending
     /\ response.kind = "text"
     /\ response.text # <<>>
     /\ ExtractJson(response.text).via = "none") =>
        calls >= 2

\* C13: a failure of the chat-completion call with a quota signal is returned
\* with error_type "quota_exceeded" and a retry_after; no failure with another
\* cause has that error_type.
C13_QuotaIsItsOwnKind ==
    (pc = "returned" /\ result # PyNone /\ ~result.success) =>
        IF response # Pending /\ response.kind = "raise"
               /\ IsQuotaMessage(response.exc.msg)
        THEN /\ "error_type" \in DOMAIN result
             /\ result.error_type = "quota_exceeded"
             /\ "retry_after" \in DOMAIN result
        ELSE "error_type" \in DOMAIN result => result.error_type # "quota_exceeded"

\* C14: when the model call raises and only one attempt is allowed,
\* ScriptGenerator.generate_script returns None.
C14_ReturnsNoneOnApiError ==
    (/\ pc = "returned"
     /\ request.impl = "ScriptGenerator"
     /\ self_max_retries = 1
     /\ response # Pending
     /\ response.kind = "raise") =>
        result = PyNone

C5_StrategiesInOrder ==
    xpc \in {"extracted", "again"} =>
        /\ Loads(text).ok => extracted = [via |-> "direct", val |-> Loads(text).val]
        /\ extracted.via = "fenced" =>
              /\ ~Loads(text).ok
              /\ FirstFenceMatch(text).found
              /\ Loads(FirstFenceMatch(text).group).ok
              /\ extracted.val = Loads(FirstFenceMatch(text).group).val
        /\ extracted.via = "braces" =>
              /\ ~Loads(text).ok
              /\ ~FencedParse(text).ok
              /\ extracted.val
                    = Loads(SubSeq(text, Find(text, LB) + 1, RFind(text, RB) + 1)).val
        /\ extracted.via = "none" <=>
              ~Loads(text).ok /\ ~FencedParse(text).ok /\ ~BraceParse(text).ok

\* C5's case: a text that is not JSON as a whole and holds a code fence whose
\* block does not parse, so that the third strategy gives the result.
C5_Witness ==
    /\ xpc = "extracted"
    /\ Contains(text, <<FENCE>>)
    /\ extracted.via = "braces"
    /\ extracted.val.t = "dict"

\* C6: _extract_json returns the embedded object for every text that wraps a
\* JSON object in a code fence with a language tag, and for every text that
\* holds one bare object between prose.
C6_FencedOrBareSucceeds ==
    xpc = "extracted" =>
        \A v \in ScriptObjects :
            (\/ \E before \in {<<>>, <<"Here", CL, WS>>,
                               <<"Use", WS, LB, "braces", RB, CL, WS>>,
                               <<FENCE, WS, LB, "x", RB, WS, FENCE, WS>>},
                   tag \in {<<JSONTAG>>, <<"javascript">>},
                   after \in {<<>>, <<WS, "Enjoy", ".">>} :
                       text = Fenced(before, tag, Dumps(v), after)
             \/ text = <<"Here", WS, "it", WS, "is", CL, WS>> \o Dumps(v)
                           \o <<WS, "Enjoy", ".">>) =>
                extracted.val = v

\* C7: for a text that is itself a JSON object, _extract_json returns what
\* json.loads returns for it, and applied to the json.dumps of that value it
\* returns the same value again.
C7_IdempotentOnValidJson ==
    (/\ xpc \in {"extracted", "again"}
     /\ Loads(text).ok
     /\ Loads(text).val.t = "dict") =>
        /\ extracted.val = Loads(text).val
        /\ xpc = "again" =>
              /\ extracted2.val = extracted.val
              /\ Loads(Dumps(extracted.val)).val = extracted.val

\* C7's case: a JSON object written otherwise than json.dumps writes it,
\* extracted, re-serialised and extracted again.
C7_Witness ==
    /\ xpc = "again"
    /\ Loads(text).ok
    /\ Loads(text).val.t = "dict"
    /\ DOMAIN Loads(text).val.m # {}
    /\ text # Dumps(extracted.val)
    /\ extracted2.val = extracted.val

\* ------------------------------------------------------------------------
\* Properties of rendering (checked under SpecRender)
\* ------------------------------------------------------------------------
\* C15: for every list of n >= 1 turn audios, the merged output is the turn
\* audios in their given order with one silence of the requested duration
\* between consecutive turns and none before the first or after the last; its
\* length is the sum of the turn lengths plus (n - 1) silences.
C15_MergedInOrderWithPauses ==
    (/\ rpc \in {"merged", "processed"}
     /\ merged_audio.exc = "none"
     /\ Len(conversation.audio_files) >= 1) =>
        LET n == Len(conversation.audio_files)
            clip == [k \in 1..n |-> conversation.files[conversation.audio_files[k]]]
            p == merge_args.pause_duration
            out == merged_audio.audio
            \* total[k]: the frames of the first k clips
            total[k \in 0..n] == IF k = 0 THEN 0 ELSE total[k - 1] + Len(clip[k])
            \* start[k]: the frames before clip k in the output
            start == [k \in 1..n |-> total[k - 1] + (k - 1) * p]
        IN  /\ Len(out) = total[n] + (n - 1) * p
            /\ \A k \in 1..n :
                  SubSeq(out, start[k] + 1, start[k] + Len(clip[k])) = clip[k]
            /\ \A k \in 1..(n - 1) :
                  SubSeq(out, start[k] + Len(clip[k]) + 1, start[k + 1]) = Frames(p, 0)

C15_Witness ==
    /\ rpc = "merged"
    /\ render_args.engine = "bark"
    /\ Len(conversation.audio_files) = 3
    /\ merge_args.pause_duration = 2
    /\ merged_audio.exc = "none"
    /\ merged_audio.audio = <<1, 0, 0, 2, 2, 0, 0, 3>>

\* C16: if speech synthesis fails for a turn, the whole render fails with an
\* error naming that turn's index; the turn is not skipped and no audio is
\* produced from the turns after it.
C16_FailedTurnFailsRender ==
    (conversation # Pending /\ conversation.failed # {}) =>
        /\ conversation.raised # "none"
        /\ \A path \in DOMAIN conversation.files : path.i < Min(conversation.failed)

\* C17: when a render fails (a turn's synthesis, the merge or the export
\* fails), the file at the target path is as it was before the call and
\* session audio_path is unchanged.
C17_FailedRenderLeavesOutput ==
    (\/ conversation # Pending /\ conversation.failed # {}
     \/ conversation # Pending /\ conversation.raised # "none"
     \/ merged_audio # Pending /\ merged_audio.exc # "none"
     \/ processed # Pending /\ ~processed.returned)
    => /\ output_file = output_before
       /\ session_audio_path = "None"

\* C18: merge_segments of an empty list raises ValueError('No audio files
\* provided') without loading anything, and process_conversation of an empty
\* list returns False without exporting any file.
C18_EmptyListRejected ==
    /\ (rpc = "merged" /\ conversation.audio_files = <<>>) =>
          /\ merged_audio.exc = "ValueError"
          /\ merged_audio.msg = "No audio files provided"
          /\ merged_audio.loads = 0
    /\ (rpc = "processed" /\ conversation.audio_files = <<>>) =>
          /\ processed.returned = FALSE
          /\ processed.exports = 0
          /\ merged_audio.loads = 0
          /\ output_file = output_before

C18_Witness ==
    /\ rpc = "processed"
    /\ conversation.audio_files = <<>>
    /\ merge_args.pause_duration = 1
    /\ output_before = EarlierRender
    /\ processed = [returned |-> FALSE, exports |-> 0]

\* C19: voice selection is total: for every speaker name and every audience
\* key, unrecognised ones included, rendering a turn resolves to a voice and
\* never raises because of the name.
C19_VoiceSelectionTotal ==
    /\ conversation # Pending => conversation.raised # "KeyError"
    /\ edge_call # Pending => edge_call.voice # ""

\* C20: the text handed to the speech-synthesis call holds no emotion marker.
C20_NoEmotionMarkerSpoken ==
    /\ conversation # Pending =>
          \A k \in 1..Len(conversation.spoken) :
              \A j \in 1..Len(conversation.spoken[k].text) :
                  conversation.spoken[k].text[j] \notin EmotionMarkers
    /\ edge_call # Pending =>
          \A j \in 1..Len(edge_call.text) : edge_call.text[j] \notin EmotionMarkers

\* C22: generate_speech_bark reports failure as a value: True when the
\* generation and the write succeed, False without raising when the
\* generation raises; so generate_full_conversation returns one path per
\* segment, in segment order, when every segment succeeds.
C22_FailureIsAValue ==
    (conversation # Pending /\ render_args.engine \in {"bark", "elevenlabs"}) =>
        /\ conversation.raised \in {"none", "KeyError"}
        /\ conversation.raised = "KeyError" =>
              \E k \in 1..Len(render_args.segments) :
                  ~get_persona(render_args.audience, render_args.segments[k].speaker).found
        /\ (conversation.raised = "none" /\ conversation.failed = {}) =>
              /\ Len(conversation.audio_files) = Len(render_args.segments)
              /\ \A k \in 1..Len(render_args.segments) :
                    /\ conversation.audio_files[k]
                         = [i |-> k - 1, speaker |-> render_args.segments[k].speaker]
                    /\ conversation.audio_files[k] \in DOMAIN conversation.files

C22_Witness ==
    /\ rpc = "synthesized"
    /\ render_args.engine = "bark"
    /\ render_args.audience = "adults"
    /\ Len(render_args.segments) = 3
    /\ conversation.failed = {}
    /\ Len(conversation.audio_files) = 3
    /\ Len(conversation.spoken) = 3

\* ------------------------------------------------------------------------
\* Properties of the synthesis calls (checked under SpecSynth)
\* ------------------------------------------------------------------------
\* C21: turns are synthesised one at a time in script order: the call for
\* turn N+1 never starts before the call for turn N has returned, and no two
\* synthesis calls of one render are in progress at the same time.
C21_OneSynthesisAtATime ==
    /\ Cardinality(in_flight) <= 1
    /\ \A k \in 1..Len(synth_log) :
          /\ synth_log[k].ev = (IF k % 2 = 1 THEN "start" ELSE "end")
          /\ synth_log[k].turn = (k - 1) \div 2
    /\ in_flight = (IF Len(synth_log) % 2 = 1
                    THEN {synth_log[Len(synth_log)].turn} ELSE {})

C21_Witness ==
    /\ spc = "synthesized"
    /\ synth_args.engine = "bark"
    /\ Len(synth_args.segments) = 3
    /\ Len(synth_log) = 6
    /\ synth_acc.failed = {1}

\* ------------------------------------------------------------------------
\* Properties of the script checks (checked under SpecCheck)
\* ------------------------------------------------------------------------
\* C23: for every audience, validate_generated_script reports a script as
\* invalid, with an issue naming the missing speaker, whenever one of the
\* audience's two speakers has no lines in it; and is_valid is true exactly
\* when the list of issues is empty.  A speaker's lines are the lines that
\* begin with the persona's name and a colon.
C23_MissingSpeakerReported ==
    (cpc = "validated" /\ validation.raised = "none") =>
        LET HasLines(name) ==
                \E k \in 1..Len(check_script) :
                    /\ k = 1 \/ check_script[k - 1] = "\n"
                    /\ k + Len(Chars(name)) <= Len(check_script)
                    /\ SubSeq(check_script, k, k + Len(Chars(name)))
                         = Chars(name) \o <<":">>
            Named(name) ==
                \E j \in 1..Len(validation.issues) :
                    validation.issues[j] = [kind |-> "missing", detail |-> name]
        IN  /\ \A gender \in {"male", "female"} :
                  ~HasLines(SPEAKER_PERSONAS[check_audience][gender]) =>
                      /\ ~validation.is_valid
                      /\ Named(SPEAKER_PERSONAS[check_audience][gender])
            /\ validation.is_valid <=> validation.issues = <<>>

\* C24: validate_generated_script enforces the word-count window: fewer
\* words than TARGET_WORD_COUNT_MIN (400) gives a 'too short' issue, more
\* than TARGET_WORD_COUNT_MAX (450) a 'too long' issue, and a script inside
\* the window gets neither.
C24_WordWindowEnforced ==
    (cpc = "validated" /\ validation.raised = "none") =>
        LET Has(kind) ==
                \E j \in 1..Len(validation.issues) : validation.issues[j].kind = kind
            words ==
                Cardinality({k \in 1..Len(check_script) :
                                /\ check_script[k] \notin {" ", "\n", "\t"}
                                /\ (k = 1 \/ check_script[k - 1] \in {" ", "\n", "\t"})})
        IN  /\ Has("too short") <=> words < 400
            /\ Has("too long") <=> words > 450

\* C25: count_words returns the number of whitespace-separated words of its
\* input (6 for a six-word sentence) and 1 for the empty string.
C25_CountWords ==
    cpc = "counted" =>
        /\ check_script = Chars("Hello world this is a test") => counted = 6
        /\ check_script = <<>> => counted = 1

\* ------------------------------------------------------------------------
\* Properties of fetch_article (checked under SpecFetch)
\* ------------------------------------------------------------------------
\* C26: fetch_article returns None when Wikipedia reports the requested
\* article as not found, and a dict with the title, the summary, the content
\* and the url of the page when the page exists.
C26_MissingArticleIsNone ==
    (fpc = "returned") =>
        /\ (first_page.kind = "PageError") => article = PyNone
        /\ (first_page.kind = "page") =>
              /\ article # PyNone
              /\ article.title = JoinWords(first_page.title, " ")
              /\ {"title", "summary", "content", "url"} \subseteq DOMAIN article

\* ------------------------------------------------------------------------
\* Properties of the wizard (checked under SpecWizard)
\* ------------------------------------------------------------------------
\* C28: the step is always one of 1..4, and at step 4, where the script is
\* shown and Generate Audio is offered, script_data is a result with success
\* true of a generate_script call made for the topic now selected.
C28_ScriptViewNeedsSuccess ==
    /\ step \in 1..4
    /\ (step = 4) =>
          /\ script_data # PyNone
          /\ script_data.success = TRUE
          /\ selected_topic # PyNone
          /\ script_request # Pending
          /\ script_request.topic_title = selected_topic.s

\* C28's case: step 4 shows the script of the selected topic in a session
\* that rendered the script of another topic before.
C28_Witness ==
    /\ step = 4
    /\ script_data # PyNone
    /\ script_data.success = TRUE
    /\ script_request.topic_title = selected_topic.s
    /\ \E path \in DOMAIN outputs :
          /\ path # AudioPathOf(selected_topic.s)
          /\ outputs[path].exists
          /\ outputs[path].data # <<>>

\* C29: at step 4 with audio_path set, the file at audio_path holds the audio
\* that was generated from the script now in script_data.
C29_NoStaleAudio ==
    (step = 4 /\ audio_path # PyNone) =>
        /\ audio_path.s \in DOMAIN outputs
        /\ outputs[audio_path.s] = FileOf(ScriptAudio(script_data))

\* C29's case: audio is ready at step 4 for a script with turns, in a session
\* that has rendered audio for two topics.
C29_Witness ==
    /\ step = 4
    /\ audio_path # PyNone
    /\ "segments" \in DOMAIN script_data
    /\ Cardinality(DOMAIN outputs) = 2
    /\ outputs[audio_path.s] = FileOf(ScriptAudio(script_data))

\* C30: at step 3 or 4 selected_topic and wiki_content are both set and
\* wiki_content is what was fetched for selected_topic; no handler gives
\* selected_topic a new value without writing wiki_content for it; and at
\* step 2 search_results is not empty.
C30_TopicAndContentTogether ==
    /\ [](step \in {3, 4} =>
            /\ selected_topic # PyNone
            /\ wiki_content # PyNone
            /\ fetched_for = selected_topic)
    /\ [](step = 2 => search_results # <<>>)
    /\ [][selected_topic' # selected_topic => fetched_for' = selected_topic']_vars

\* C30 as amended: whenever selected_topic is set, wiki_content is set and is
\* what get_article_content returned for it; selected_topic is set at step 3
\* and 4; at step 2 search_results is not empty.  New Topic clears
\* selected_topic and leaves wiki_content.
C30_ContentMatchesTopic ==
    /\ (selected_topic # PyNone) =>
          /\ wiki_content # PyNone
          /\ fetched_for = selected_topic
    /\ (step \in {3, 4}) => selected_topic # PyNone
    /\ (step = 2) => search_results # <<>>

\* C30's case: a topic was selected again after New Topic, which left the
\* content of the earlier topic in wiki_content while selected_topic was None.
C30_Witness ==
    /\ step = 3
    /\ script_data = PyNone
    /\ outputs # NoFiles
    /\ selected_topic # PyNone
    /\ fetched_for = selected_topic
    /\ wiki_content.full_text # <<>>

====
